---------------------------- MODULE Spec2Model ----------------------------
(***************************************************************************)
(* A model of the Recent Sales / dashboard end-to-end test suite.          *)
(*                                                                         *)
(* Text is a sequence of characters, each character a one-character        *)
(* string.  A character outside ASCII is written by its code point         *)
(* ("U+00DF" is the German sharp s).  In URLs and in fixed labels an       *)
(* element may also stand for an indivisible run of characters none of     *)
(* which is a slash or white space ("https:", "Total").                    *)
(*                                                                         *)
(* The helper functions of the suite are operators; a call of one of them  *)
(* is the pair of variables call (the function and what it reads) and ret  *)
(* (what it returned or raised).  The tests are state machines over pc,    *)
(* with everything read from the browser drawn from small sets.            *)
(***************************************************************************)
EXTENDS Integers, Sequences, FiniteSets, TLC

VARIABLES
    environ,    \* os.environ restricted to TARGET_URL: <<>> or [TARGET_URL |-> text]
    call,       \* the helper call in progress: [fn, a, pg, n, gen]: a text, the texts of a
                \* page, a number, and how the text was written
    ret,        \* its result: [kind, val, exc]
    test,       \* the test function that runs ("" when none does)
    pc,         \* the step of the test function that comes next
    outcome,    \* "running", "passed", "failed" or "skipped" (pytest's report)
    error,      \* the exception that ended the test ("" when none did)
    locals,     \* the local variables of the test function, by their names
    page,       \* what the browser page shows
    searches    \* the searches made so far, in order: what was typed and what came back

helper_vars == <<environ, call, ret>>

test_vars == <<test, pc, outcome, error, locals, page, searches>>

vars == <<environ, call, ret, test, pc, outcome, error, locals, page, searches>>

---------------------------------------------------------------------------
(* Bounds of the model.                                                    *)

MaxLen == 4          \* longest base string given to build_alternating_case_prefix
MaxUrlLen == 3       \* longest TARGET_URL and path given to url()
MaxTokens == 3       \* most pieces a text shown by the page is put together from
MaxNodeIdLen == 3    \* longest node id of a test

---------------------------------------------------------------------------
(* Characters and strings.                                                 *)

LowerLetters ==
    << "a","b","c","d","e","f","g","h","i","j","k","l","m",
       "n","o","p","q","r","s","t","u","v","w","x","y","z" >>

UpperLetters ==
    << "A","B","C","D","E","F","G","H","I","J","K","L","M",
       "N","O","P","Q","R","S","T","U","V","W","X","Y","Z" >>

Digits == << "0","1","2","3","4","5","6","7","8","9" >>

SharpS == "U+00DF"

Range(s) == { s[i] : i \in DOMAIN s }

IndexIn(c, s) == CHOOSE i \in DOMAIN s : s[i] = c

IsLowerLetter(c) == c \in Range(LowerLetters)
IsUpperLetter(c) == c \in Range(UpperLetters)

\* str.isalpha() of one character
IsAlpha(c) == IsLowerLetter(c) \/ IsUpperLetter(c) \/ c = SharpS

\* str.lower() of one character: a string
Lower(c) ==
    IF IsUpperLetter(c) THEN << LowerLetters[IndexIn(c, UpperLetters)] >> ELSE << c >>

\* str.upper() of one character: a string, two characters long for the sharp s
Upper(c) ==
    IF IsLowerLetter(c) THEN << UpperLetters[IndexIn(c, LowerLetters)] >>
    ELSE IF c = SharpS THEN << "S", "S" >>
    ELSE << c >>

Whitespace == { " ", "\t", "\n" }

\* str.isspace() of one character
IsSpace(c) == c \in Whitespace

Min(a, b) == IF a <= b THEN a ELSE b

\* s[:n] for n >= 0
Take(s, n) == SubSeq(s, 1, Min(n, Len(s)))

\* s[n:] for n >= 0
Drop(s, n) == SubSeq(s, n + 1, Len(s))

RECURSIVE LStripSet(_, _)
LStripSet(s, cs) ==
    IF s # << >> /\ Head(s) \in cs THEN LStripSet(Tail(s), cs) ELSE s

RECURSIVE RStripSet(_, _)
RStripSet(s, cs) ==
    IF s # << >> /\ s[Len(s)] \in cs THEN RStripSet(SubSeq(s, 1, Len(s) - 1), cs) ELSE s

\* str.strip()
Strip(s) == RStripSet(LStripSet(s, Whitespace), Whitespace)

\* All strings over the alphabet cs of length at most n
StringsUpTo(cs, n) == UNION { [1..k -> cs] : k \in 0..n }

\* The concatenation of a sequence of strings
RECURSIVE Flatten(_)
Flatten(ss) == IF ss = << >> THEN << >> ELSE Head(ss) \o Flatten(Tail(ss))

IsDigit(c) == c \in Range(Digits)

DigitVal(c) == IndexIn(c, Digits) - 1

\* int() of a string of decimal digits
RECURSIVE ToInt(_)
ToInt(ds) ==
    IF ds = << >> THEN 0 ELSE 10 * ToInt(SubSeq(ds, 1, Len(ds) - 1)) + DigitVal(ds[Len(ds)])

RECURSIVE LowerStr(_)
LowerStr(s) == IF s = << >> THEN << >> ELSE Lower(Head(s)) \o LowerStr(Tail(s))

\* s starts with t at position i (from 1)
MatchesAt(s, i, t) == i + Len(t) - 1 <= Len(s) /\ SubSeq(s, i, i + Len(t) - 1) = t

Contains(s, t) == \E i \in 1..(Len(s) + 1) : MatchesAt(s, i, t)

\* The end of the longest run of characters of cs that starts at position i
\* (i - 1 when there is none)
RECURSIVE RunEnd(_, _, _)
RunEnd(s, i, cs) == IF i <= Len(s) /\ s[i] \in cs THEN RunEnd(s, i + 1, cs) ELSE i - 1

\* White space as a browser normalises it for text matching: runs collapsed to
\* one space, none at the ends
RECURSIVE CollapseSpace(_)
CollapseSpace(s) ==
    IF s = << >> THEN << >>
    ELSE IF IsSpace(Head(s))
         THEN << " " >> \o CollapseSpace(LStripSet(s, Whitespace))
         ELSE << Head(s) >> \o CollapseSpace(Tail(s))

NormalizeSpace(s) == CollapseSpace(Strip(s))

\* Playwright's :has-text(t): a substring, case and white space aside
HasText(s, t) == Contains(LowerStr(NormalizeSpace(s)), LowerStr(NormalizeSpace(t)))

---------------------------------------------------------------------------
(* Results of a call.                                                      *)

Pending == [kind |-> "pending", val |-> << >>, exc |-> ""]
Return(v) == [kind |-> "return", val |-> v, exc |-> ""]
Raise(e) == [kind |-> "raise", val |-> << >>, exc |-> e]

NoEnv == << >>

---------------------------------------------------------------------------
(* build_alternating_case_prefix                                           *)

RECURSIVE AlternateFrom(_, _)
AlternateFrom(prefix, alpha_index) ==
    IF prefix = << >> THEN << >>
    ELSE LET ch == Head(prefix) IN
         IF IsAlpha(ch)
         THEN (IF alpha_index % 2 = 0 THEN Lower(ch) ELSE Upper(ch))
              \o AlternateFrom(Tail(prefix), alpha_index + 1)
         ELSE << ch >> \o AlternateFrom(Tail(prefix), alpha_index)

\* The same with the alternation started on the upper case.
build_alternating_case_prefix_upper_first(base, length) ==
    AlternateFrom(Take(base, length), 1)

\* The same with the alternation started by the parity of length.
build_alternating_case_prefix_from_length(base, length) ==
    AlternateFrom(Take(base, length), length)

build_alternating_case_prefix(base, length) == AlternateFrom(Take(base, length), 0)

---------------------------------------------------------------------------
(* config/settings.py                                                      *)

\* os.getenv(key) or ""
GetenvOrEmpty(env, key) == IF key \in DOMAIN env THEN env[key] ELSE << >>

\* The same without the removal of the white space around TARGET_URL.
base_url_no_strip(env) ==
    LET target_url == GetenvOrEmpty(env, "TARGET_URL") IN
    IF target_url = << >> THEN Raise("RuntimeError")
    ELSE Return(RStripSet(target_url, {"/"}))

\* The same without the removal of the trailing slashes.
base_url_no_rstrip(env) ==
    LET target_url == Strip(GetenvOrEmpty(env, "TARGET_URL")) IN
    IF target_url = << >> THEN Raise("RuntimeError") ELSE Return(target_url)

base_url(env) ==
    LET target_url == Strip(GetenvOrEmpty(env, "TARGET_URL")) IN
    IF target_url = << >> THEN Raise("RuntimeError")
    ELSE Return(RStripSet(target_url, {"/"}))

url(env, path) ==
    LET b == base_url(env) IN
    IF b.kind = "raise" THEN b
    ELSE Return(b.val \o << "/" >> \o LStripSet(path, {"/"}))

---------------------------------------------------------------------------
(* get_total_record_count                                                  *)

TotalRecordCountLabel ==
    << "T","o","t","a","l"," ","R","e","c","o","r","d"," ","C","o","u","n","t" >>

\* re.search(r"Total Record Count\s+(\d+)", text): the digits captured by the
\* leftmost match from position i on, << >> when there is none
RECURSIVE SearchCountFrom(_, _)
SearchCountFrom(text, i) ==
    IF i > Len(text) THEN << >>
    ELSE LET ws == i + Len(TotalRecordCountLabel)
             wsEnd == RunEnd(text, ws, Whitespace)
             dsEnd == RunEnd(text, wsEnd + 1, Range(Digits))
         IN  IF /\ MatchesAt(text, i, TotalRecordCountLabel)
                /\ wsEnd >= ws
                /\ dsEnd >= wsEnd + 1
             THEN SubSeq(text, wsEnd + 1, dsEnd)
             ELSE SearchCountFrom(text, i + 1)

\* The same with \d in place of \d+: one digit captured.
ParseTotalRecordCountOneDigit(text) ==
    LET ds == SearchCountFrom(text, 1) IN
    IF ds = << >> THEN Raise("AssertionError") ELSE Return(<< DigitVal(ds[1]) >>)

\* Lines 38 to 45: the regular expression, the assert and int()
ParseTotalRecordCount(text) ==
    LET ds == SearchCountFrom(text, 1) IN
    IF ds = << >> THEN Raise("AssertionError") ELSE Return(<< ToInt(ds) >>)

\* page.locator("p:has-text('Total Record Count')").first over the texts of
\* the page's <p> elements: the index of the element, 0 when there is none
FirstParagraph(paragraphs) ==
    LET hits == { k \in DOMAIN paragraphs : HasText(paragraphs[k], TotalRecordCountLabel) } IN
    IF hits = {} THEN 0 ELSE CHOOSE k \in hits : \A l \in hits : k <= l

get_total_record_count(paragraphs) ==
    LET k == FirstParagraph(paragraphs) IN
    IF k = 0 THEN Raise("TimeoutError")
    ELSE ParseTotalRecordCount(Strip(paragraphs[k]))

---------------------------------------------------------------------------
(* datetime.strptime for the six formats of parse_invoice_date             *)

\* The month names of the C locale, lower case, January first (%b and %B)
MonthAbbr ==
    << << "j","a","n" >>,
       << "f","e","b" >>,
       << "m","a","r" >>,
       << "a","p","r" >>,
       << "m","a","y" >>,
       << "j","u","n" >>,
       << "j","u","l" >>,
       << "a","u","g" >>,
       << "s","e","p" >>,
       << "o","c","t" >>,
       << "n","o","v" >>,
       << "d","e","c" >> >>

MonthName ==
    << << "j","a","n","u","a","r","y" >>,
       << "f","e","b","r","u","a","r","y" >>,
       << "m","a","r","c","h" >>,
       << "a","p","r","i","l" >>,
       << "m","a","y" >>,
       << "j","u","n","e" >>,
       << "j","u","l","y" >>,
       << "a","u","g","u","s","t" >>,
       << "s","e","p","t","e","m","b","e","r" >>,
       << "o","c","t","o","b","e","r" >>,
       << "n","o","v","e","m","b","e","r" >>,
       << "d","e","c","e","m","b","e","r" >> >>

\* The months in the order the regular expression of %B tries their names:
\* the longest name first
MonthNameOrder == << 9, 2, 11, 12, 1, 10, 8, 3, 4, 6, 7, 5 >>

\* The six formats, a directive, a character or a run of white space (" ",
\* which strptime turns into \s+) per element
POSSIBLE_FORMATS ==
    << << "%Y", "-", "%m", "-", "%d" >>,
       << "%m", "/", "%d", "/", "%Y" >>,
       << "%m", "/", "%d", "/", "%y" >>,
       << "%b", ".", " ", "%d", ",", " ", "%Y" >>,
       << "%b", " ", "%d", ",", " ", "%Y" >>,
       << "%B", " ", "%d", ",", " ", "%Y" >> >>

Cand(e, k, v) == [end |-> e, key |-> k, val |-> v]

\* s[pos], or "" past the end
At(s, pos) == IF pos \in DOMAIN s THEN s[pos] ELSE ""

\* One alternative of a directive of two characters, the first in c1 and the
\* second in c2
Two(s, pos, c1, c2, k) ==
    IF At(s, pos) \in c1 /\ At(s, pos + 1) \in c2
    THEN << Cand(pos + 1, k, ToInt(LStripSet(SubSeq(s, pos, pos + 1), Whitespace))) >>
    ELSE << >>

One(s, pos, c1, k) ==
    IF At(s, pos) \in c1 THEN << Cand(pos, k, ToInt(<< s[pos] >>)) >> ELSE << >>

D09 == Range(Digits)
D19 == Range(Digits) \ { "0" }

\* The month names of table that s spells at pos, whatever the case, in the
\* order of the indexes in order
RECURSIVE NameCands(_, _, _, _, _, _)
NameCands(s, pos, table, order, j, k) ==
    IF j > Len(order) THEN << >>
    ELSE LET name == table[order[j]]
             e == pos + Len(name) - 1
         IN  (IF e <= Len(s) /\ LowerStr(SubSeq(s, pos, e)) = name
              THEN << Cand(e, k, order[j]) >> ELSE << >>)
             \o NameCands(s, pos, table, order, j + 1, k)

\* The runs of white space that start at pos, the longest first
RECURSIVE SpaceCands(_, _)
SpaceCands(pos, e) == IF e < pos THEN << >> ELSE << Cand(e, " ", 0) >> \o SpaceCands(pos, e - 1)

\* What the element el of a format can match at pos, in the order the regular
\* expression tries it
Candidates(el, s, pos) ==
    CASE el = "%Y" ->
           IF \A j \in pos..(pos + 3) : At(s, j) \in D09
           THEN << Cand(pos + 3, "Y", ToInt(SubSeq(s, pos, pos + 3))) >> ELSE << >>
      [] el = "%y" -> Two(s, pos, D09, D09, "y")
      [] el = "%m" ->
           Two(s, pos, {"1"}, {"0", "1", "2"}, "m")
           \o Two(s, pos, {"0"}, D19, "m")
           \o One(s, pos, D19, "m")
      [] el = "%d" ->
           Two(s, pos, {"3"}, {"0", "1"}, "d")
           \o Two(s, pos, {"1", "2"}, D09, "d")
           \o Two(s, pos, {"0"}, D19, "d")
           \o One(s, pos, D19, "d")
           \o Two(s, pos, {" "}, D19, "d")
      [] el = "%b" -> NameCands(s, pos, MonthAbbr, [j \in 1..12 |-> j], 1, "b")
      [] el = "%B" -> NameCands(s, pos, MonthName, MonthNameOrder, 1, "B")
      [] el = " " -> SpaceCands(pos, RunEnd(s, pos, Whitespace))
      [] OTHER -> IF At(s, pos) = el THEN << Cand(pos, el, 0) >> ELSE << >>

\* re.match of the format's regular expression: the first match in the order
\* of the backtracking search, as << its candidates >>, or << >>
RECURSIVE MatchFrom(_, _, _, _)

\* The candidates cands of the k-th element of fmt from the j-th on: the first
\* after which the rest of the format matches
RECURSIVE TryCandidates(_, _, _, _, _)
TryCandidates(fmt, k, s, cands, j) ==
    IF j > Len(cands) THEN << >>
    ELSE LET rest == MatchFrom(fmt, k + 1, s, cands[j].end + 1) IN
         IF rest # << >> THEN << << cands[j] >> \o rest[1] >>
         ELSE TryCandidates(fmt, k, s, cands, j + 1)

MatchFrom(fmt, k, s, pos) ==
    IF k > Len(fmt) THEN << << >> >>
    ELSE TryCandidates(fmt, k, s, Candidates(fmt[k], s, pos), 1)

IsLeap(year) == year % 4 = 0 /\ (year % 100 # 0 \/ year % 400 = 0)

DaysInMonth(year, month) ==
    IF month = 2 THEN (IF IsLeap(year) THEN 29 ELSE 28)
    ELSE IF month \in {4, 6, 9, 11} THEN 30 ELSE 31

\* datetime.date(year, month, day) accepts it
IsDate(year, month, day) ==
    /\ year \in 1..9999
    /\ month \in 1..12
    /\ day \in 1..DaysInMonth(year, month)

\* The value the match m gives the directive key
Field(m, key) == (CHOOSE j \in DOMAIN m : m[j].key = key)

HasField(m, key) == \E j \in DOMAIN m : m[j].key = key

\* The century of a two-digit year (POSIX: 69-99 are 1969-1999, 0-68 are
\* 2000-2068)
YearOfTwoDigits(y) == IF y <= 68 THEN 2000 + y ELSE 1900 + y

\* The date the match m of s stands for: a ValueError when the match leaves
\* text over or datetime.date refuses the fields
DateOfMatch(s, m) ==
    LET last == IF m = << >> THEN 0 ELSE m[Len(m)].end
        year == IF HasField(m, "Y") THEN m[Field(m, "Y")].val
                ELSE YearOfTwoDigits(m[Field(m, "y")].val)
        month == IF HasField(m, "m") THEN m[Field(m, "m")].val
                 ELSE IF HasField(m, "b") THEN m[Field(m, "b")].val
                 ELSE m[Field(m, "B")].val
        day == m[Field(m, "d")].val
    IN  IF last # Len(s) THEN Raise("ValueError")
        ELSE IF ~IsDate(year, month, day) THEN Raise("ValueError")
        ELSE Return(<< year, month, day >>)

\* datetime.strptime(s, fmt).date(): a date << year, month, day >> or a ValueError
strptime_date(s, fmt) ==
    LET found == MatchFrom(fmt, 1, s, 1) IN
    IF found = << >> THEN Raise("ValueError") ELSE DateOfMatch(s, found[1])

---------------------------------------------------------------------------
(* parse_invoice_date                                                      *)

\* The loop over the formats from the k-th on: the first date, the
\* AssertionError after the last ValueError
RECURSIVE TryFormatsFrom(_, _)
TryFormatsFrom(text, k) ==
    IF k > Len(POSSIBLE_FORMATS) THEN Raise("AssertionError")
    ELSE LET r == strptime_date(text, POSSIBLE_FORMATS[k]) IN
         IF r.kind = "return" THEN r ELSE TryFormatsFrom(text, k + 1)

\* The same without text.strip().
parse_invoice_date_no_strip(text) == TryFormatsFrom(text, 1)

\* The same with the ValueError of the last format left uncaught.
parse_invoice_date_uncaught(text) ==
    LET r == TryFormatsFrom(Strip(text), 1) IN
    IF r.kind = "raise" THEN Raise("ValueError") ELSE r

parse_invoice_date(text) == TryFormatsFrom(Strip(text), 1)

---------------------------------------------------------------------------
(* The helper calls.                                                       *)

AltAlphabet == { "a", "B", "1", "-", SharpS }
UrlAlphabet == { "h", "/", " " }
PathAlphabet == { "p", "/", " " }

AltCalls ==
    { [fn |-> "build_alternating_case_prefix", a |-> b, pg |-> << >>, n |-> k, gen |-> << >>] :
        b \in StringsUpTo(AltAlphabet, MaxLen), k \in 0..(MaxLen + 1) }

UrlCalls ==
    { [fn |-> "url", a |-> p, pg |-> << >>, n |-> 0, gen |-> << >>] :
        p \in StringsUpTo(PathAlphabet, MaxUrlLen) }
    \cup { [fn |-> "base_url", a |-> << >>, pg |-> << >>, n |-> 0, gen |-> << >>] }

Environs ==
    { NoEnv } \cup { [TARGET_URL |-> t] : t \in StringsUpTo(UrlAlphabet, MaxUrlLen) }

\* Texts of a <p> element, put together from a few pieces
CountPieces == { TotalRecordCountLabel, << " " >>, << "1" >>, << "1", "2" >>, << "x" >> }

CountTexts == { Flatten(ts) : ts \in StringsUpTo(CountPieces, MaxTokens) }

LowerLabelText == LowerStr(TotalRecordCountLabel) \o << " ", "7" >>

CountSpecialTexts ==
    { LowerLabelText,
      TotalRecordCountLabel \o << "\n", " ", "3", "0", " ", "9" >>,
      << "T","o","t","a","l"," "," ","R","e","c","o","r","d"," ","C","o","u","n","t"," ","5" >>,
      TotalRecordCountLabel \o << ":", " ", "5", " " >> \o TotalRecordCountLabel \o << " ", "7" >>,
      << " " >> \o TotalRecordCountLabel \o << " ", "0", "4", "\n" >> }

CountPages ==
    { << t >> : t \in CountTexts \cup CountSpecialTexts }
    \cup { << << "x" >>, t >> : t \in CountTexts \cup CountSpecialTexts }
    \cup { << LowerLabelText, t >> : t \in CountTexts }

CountCalls ==
    { [fn |-> "get_total_record_count", a |-> << >>, pg |-> pg, n |-> 0, gen |-> << >>] : pg \in CountPages }

\* The decimal digits of n
RECURSIVE DigitsOf(_)
DigitsOf(n) ==
    IF n < 10 THEN << Digits[n + 1] >> ELSE DigitsOf(n \div 10) \o << Digits[(n % 10) + 1] >>

\* n in at least w digits, zeros in front
RECURSIVE ZeroPad(_, _)
ZeroPad(ds, w) == IF Len(ds) >= w THEN ds ELSE ZeroPad(<< "0" >> \o ds, w)

RECURSIVE UpperStr(_)
UpperStr(s) == IF s = << >> THEN << >> ELSE Upper(Head(s)) \o UpperStr(Tail(s))

Capitalize(s) == Upper(Head(s)) \o Tail(s)

\* The date year-month-day written in the f-th format: in style 1 with the
\* numbers zero-padded, the month name capitalised and single spaces, in style
\* 2 with the numbers as they are, the month name in upper case and longer
\* white space
WriteDate(f, year, month, day, style) ==
    LET num(n) == IF style = 1 THEN ZeroPad(DigitsOf(n), 2) ELSE DigitsOf(n)
        name(table) == IF style = 1 THEN Capitalize(table[month]) ELSE UpperStr(table[month])
        sp == IF style = 1 THEN << " " >> ELSE << " ", "\t" >>
        y4 == ZeroPad(DigitsOf(year), 4)
        y2 == ZeroPad(DigitsOf(year % 100), 2)
    IN  CASE f = 1 -> y4 \o << "-" >> \o num(month) \o << "-" >> \o num(day)
          [] f = 2 -> num(month) \o << "/" >> \o num(day) \o << "/" >> \o y4
          [] f = 3 -> num(month) \o << "/" >> \o num(day) \o << "/" >> \o y2
          [] f = 4 -> name(MonthAbbr) \o << "." >> \o sp \o num(day) \o << "," >> \o sp \o y4
          [] f = 5 -> name(MonthAbbr) \o sp \o num(day) \o << "," >> \o sp \o y4
          [] f = 6 -> name(MonthName) \o sp \o num(day) \o << "," >> \o sp \o y4

DateYears == { 1, 1969, 2024, 2025, 2068 }
DateMonths == { 2, 5, 9, 10, 12 }
DateDays == { 1, 9, 29, 30, 31 }

WrittenDateCalls ==
    { [fn |-> "parse_invoice_date",
       a |-> (IF g[6] = 1 THEN << >> ELSE << " ", "\n" >>)
             \o WriteDate(g[1], g[2], g[3], g[4], g[5])
             \o (IF g[6] = 1 THEN << >> ELSE << "\t" >>),
       pg |-> << >>, n |-> 0, gen |-> g] :
        g \in (1..6) \X DateYears \X DateMonths \X DateDays \X {1, 2} \X {1, 2} }

DatePieces ==
    { << "2","0","2","4" >>, << "1","0" >>, << "3" >>, << "O","c","t" >>,
      << "-" >>, << "/" >>, << ",", " " >>, << " " >>, << "x" >> }

OtherDateCalls ==
    { [fn |-> "parse_invoice_date", a |-> Flatten(ts), pg |-> << >>, n |-> 0, gen |-> << >>] :
        ts \in StringsUpTo(DatePieces, MaxTokens) }

Idle == NoEnv

\* No test function runs while a helper is called on its own
NoTest ==
    /\ test = "" /\ pc = "" /\ outcome = "" /\ error = ""
    /\ locals = << >> /\ page = << >> /\ searches = << >>

AltInit == environ = Idle /\ call \in AltCalls /\ ret = Pending /\ NoTest

UrlInit == environ \in Environs /\ call \in UrlCalls /\ ret = Pending /\ NoTest

CountInit == environ = Idle /\ call \in CountCalls /\ ret = Pending /\ NoTest

DateInit ==
    environ = Idle /\ call \in WrittenDateCalls \cup OtherDateCalls /\ ret = Pending /\ NoTest

BuildAlternatingCasePrefix ==
    /\ call.fn = "build_alternating_case_prefix"
    /\ ret = Pending
    /\ ret' = Return(build_alternating_case_prefix(call.a, call.n))
    /\ UNCHANGED <<environ, call>>
    /\ UNCHANGED test_vars

Url ==
    /\ call.fn = "url"
    /\ ret = Pending
    /\ ret' = url(environ, call.a)
    /\ UNCHANGED <<environ, call>>
    /\ UNCHANGED test_vars

BaseUrl ==
    /\ call.fn = "base_url"
    /\ ret = Pending
    /\ ret' = base_url(environ)
    /\ UNCHANGED <<environ, call>>
    /\ UNCHANGED test_vars

GetTotalRecordCount ==
    /\ call.fn = "get_total_record_count"
    /\ ret = Pending
    /\ ret' = get_total_record_count(call.pg)
    /\ UNCHANGED <<environ, call>>
    /\ UNCHANGED test_vars

ParseInvoiceDate ==
    /\ call.fn = "parse_invoice_date"
    /\ ret = Pending
    /\ ret' = parse_invoice_date(call.a)
    /\ UNCHANGED <<environ, call>>
    /\ UNCHANGED test_vars

SpecAlt == AltInit /\ [][BuildAlternatingCasePrefix]_vars

SpecUrl == UrlInit /\ [][Url \/ BaseUrl]_vars

SpecCount == CountInit /\ [][GetTotalRecordCount]_vars

SpecDate == DateInit /\ [][ParseInvoiceDate]_vars

---------------------------------------------------------------------------
(* Claims about the helper functions.                                      *)

IsAltCall == call.fn = "build_alternating_case_prefix" /\ ret.kind = "return"

\* The number of alphabetic characters of p before position j
AlphaBefore(p, j) == Cardinality({ k \in 1..(j - 1) : IsAlpha(p[k]) })

\* What the claim asks of the character at position j of the prefix p
CaseForm(p, j) ==
    IF ~IsAlpha(p[j]) THEN << p[j] >>
    ELSE IF AlphaBefore(p, j) % 2 = 0 THEN Lower(p[j]) ELSE Upper(p[j])

RECURSIVE CaseFormsFrom(_, _)
CaseFormsFrom(p, j) ==
    IF j > Len(p) THEN << >> ELSE CaseForm(p, j) \o CaseFormsFrom(p, j + 1)

SingleCaseForms(p) == \A j \in 1..Len(p) : Len(CaseForm(p, j)) = 1

Honeywell == << "H","o","n","e","y","w","e","l","l" >>
MF123 == << "M","F","-","1","2","3" >>

\* C6 as stated: the result has min(length, len(base)) characters, the k-th
\* alphabetic character lower-cased for even k and upper-cased for odd k, every
\* other character unchanged, each in its own position.
C6_SameLengthSamePositions ==
    IsAltCall =>
        LET p == Take(call.a, call.n) IN
        /\ Len(ret.val) = Min(call.n, Len(call.a))
        /\ \A j \in 1..Len(p) : << ret.val[j] >> = CaseForm(p, j)

\* C6 amended: the result is the concatenation, in order, of the case forms of
\* the characters of base[:length] (lower for the even alphabetic characters,
\* upper for the odd ones, the character itself otherwise); it has
\* min(length, len(base)) characters, each in its own position, whenever every
\* such case form is one character long, as for the ASCII letters; and the two
\* examples of the docstrings come out as documented.
C6_AlternatingCaseForms ==
    /\ build_alternating_case_prefix(Honeywell, 4) = << "h","O","n","E" >>
    /\ build_alternating_case_prefix(MF123, 4) = << "m","F","-","1" >>
    /\ IsAltCall =>
          LET p == Take(call.a, call.n) IN
          /\ ret.val = CaseFormsFrom(p, 1)
          /\ SingleCaseForms(p) =>
                /\ Len(ret.val) = Min(call.n, Len(call.a))
                /\ \A j \in 1..Len(p) : << ret.val[j] >> = CaseForm(p, j)

\* A prefix shorter than the base, with a non-alphabetic character between an
\* even and an odd alphabetic character, has been transformed.
C6_Witness ==
    /\ IsAltCall
    /\ call.n < Len(call.a)
    /\ \E i, j \in 1..call.n :
          /\ i < j
          /\ ~IsAlpha(call.a[i])
          /\ IsAlpha(call.a[j])
          /\ AlphaBefore(call.a, j) % 2 = 1
          /\ ret.val[j] # call.a[j]

\* t starts with s
IsPrefix(s, t) == Len(s) <= Len(t) /\ s = SubSeq(t, 1, Len(s))

\* The search term the loop of a filter test types after the one of length n
NextTerm == build_alternating_case_prefix(call.a, call.n + 1)

IsUrlCall == call.fn = "url"

\* t is s without the characters of cs at its end
IsRTrimOf(t, s, cs) ==
    /\ Len(t) <= Len(s)
    /\ t = SubSeq(s, 1, Len(t))
    /\ \A i \in (Len(t) + 1)..Len(s) : s[i] \in cs
    /\ (t # << >> => t[Len(t)] \notin cs)

\* t is s without the characters of cs at its start
IsLTrimOf(t, s, cs) ==
    /\ Len(t) <= Len(s)
    /\ t = SubSeq(s, Len(s) - Len(t) + 1, Len(s))
    /\ \A i \in 1..(Len(s) - Len(t)) : s[i] \in cs
    /\ (t # << >> => t[1] \notin cs)

\* t is s without the white space at both ends
IsTrimOf(t, s) ==
    \E i \in 0..Len(s) :
        /\ IsLTrimOf(SubSeq(s, i + 1, Len(s)), s, Whitespace)
        /\ IsRTrimOf(t, SubSeq(s, i + 1, Len(s)), Whitespace)

TargetUrl == GetenvOrEmpty(environ, "TARGET_URL")

\* C10: for a TARGET_URL that is not empty once trimmed, url(path) is the trimmed
\* TARGET_URL without its trailing slashes, then exactly one slash, then path
\* without its leading slashes.
C10_UrlJoinsWithOneSlash ==
    (IsUrlCall /\ ret # Pending /\ \E c \in Range(TargetUrl) : ~IsSpace(c)) =>
        /\ ret.kind = "return"
        /\ \E i \in 0..Len(ret.val) :
              LET b == SubSeq(ret.val, 1, i)
                  rest == SubSeq(ret.val, i + 1, Len(ret.val))
              IN  /\ \E t \in { SubSeq(TargetUrl, k, l) :
                                    k \in 1..(Len(TargetUrl) + 1), l \in 0..Len(TargetUrl) } :
                        IsTrimOf(t, TargetUrl) /\ IsRTrimOf(b, t, {"/"})
                  /\ rest # << >>
                  /\ Head(rest) = "/"
                  /\ IsLTrimOf(Tail(rest), call.a, {"/"})

\* url() has joined a TARGET_URL that ends in two slashes, inside white space,
\* with a path that starts with two slashes.
C10_Witness ==
    /\ IsUrlCall
    /\ ret.kind = "return"
    /\ Len(TargetUrl) >= 3
    /\ \E k \in 2..(Len(TargetUrl) - 1) :
          /\ TargetUrl[k] = "/" /\ TargetUrl[k + 1] = "/" /\ TargetUrl[k - 1] = "h"
    /\ Len(call.a) >= 3
    /\ call.a[1] = "/" /\ call.a[2] = "/" /\ call.a[3] = "p"

\* TARGET_URL is unset, empty or white space only
TargetUrlBlank == \A c \in Range(TargetUrl) : IsSpace(c)

\* C11: base_url, and with it url, raises RuntimeError whenever TARGET_URL is
\* unset, empty or made of white space only, and returns a value in every
\* other case.
C11_RuntimeErrorIffBlank ==
    (call.fn \in { "base_url", "url" } /\ ret # Pending) =>
        IF TargetUrlBlank THEN ret = Raise("RuntimeError") ELSE ret.kind = "return"

\* base_url has raised for a TARGET_URL of two white space characters.
C11_Witness ==
    /\ call.fn = "base_url"
    /\ environ # NoEnv
    /\ Len(TargetUrl) = 2
    /\ TargetUrlBlank
    /\ ret = Raise("RuntimeError")

\* C30: whenever base_url returns, the returned string is not empty and does
\* not end with a slash, and every string url returns is a base that is not
\* empty, then a slash.
C30_BaseNotEmptyNoTrailingSlash ==
    /\ (call.fn = "base_url" /\ ret.kind = "return") =>
          /\ ret.val # << >>
          /\ ret.val[Len(ret.val)] # "/"
    /\ (call.fn = "url" /\ ret.kind = "return") =>
          /\ base_url(environ).val # << >>
          /\ MatchesAt(ret.val, 1, base_url(environ).val \o << "/" >>)

\* What holds of it: the returned base never ends with a slash, and url
\* returns the base, whatever it is, then a slash
BaseHasNoTrailingSlash ==
    /\ (call.fn = "base_url" /\ ret.kind = "return") =>
          (ret.val = << >> \/ ret.val[Len(ret.val)] # "/")
    /\ (call.fn = "url" /\ ret.kind = "return") =>
          MatchesAt(ret.val, 1, base_url(environ).val \o << "/" >>)

\* base_url has returned the empty string for a TARGET_URL made of slashes
SlashesOnlyReturnsEmpty ==
    /\ call.fn = "base_url"
    /\ TargetUrl # << >>
    /\ \A c \in Range(TargetUrl) : c = "/"
    /\ ret = Return(<< >>)

IsCountCall == call.fn = "get_total_record_count"

RECURSIVE Pow10(_)
Pow10(k) == IF k = 0 THEN 1 ELSE 10 * Pow10(k - 1)

\* The number written by the digits at positions d..e of text
Decimal(text, d, e) ==
    LET RECURSIVE Sum(_)
        Sum(j) == IF j > e THEN 0 ELSE DigitVal(text[j]) * Pow10(e - j) + Sum(j + 1)
    IN  Sum(d)

\* The label is at position i of text, followed by white space up to position
\* d - 1 at least one character long, followed by a digit at position d
LabelSpaceDigit(text, i, d) ==
    /\ MatchesAt(text, i, TotalRecordCountLabel)
    /\ d > i + Len(TotalRecordCountLabel)
    /\ d <= Len(text)
    /\ \A j \in (i + Len(TotalRecordCountLabel))..(d - 1) : IsSpace(text[j])
    /\ IsDigit(text[d])

\* The paragraphs of the page that contain the label, as the locator sees it
LabelParagraphs == { k \in DOMAIN call.pg : HasText(call.pg[k], TotalRecordCountLabel) }

\* C9: get_total_record_count returns the value of the first run of decimal
\* digits that follows 'Total Record Count' and at least one white space in the
\* text of the first <p> that contains 'Total Record Count', and fails with an
\* AssertionError when that text has no such match.
C9_FirstDigitRunAfterLabel ==
    (IsCountCall /\ ret # Pending /\ LabelParagraphs # {}) =>
        LET k == CHOOSE k \in LabelParagraphs : \A l \in LabelParagraphs : k <= l
            text == call.pg[k]
            hits == { m \in (1..Len(text)) \X (1..Len(text)) : LabelSpaceDigit(text, m[1], m[2]) }
        IN  IF hits = {} THEN ret = Raise("AssertionError")
            ELSE LET m == CHOOSE m \in hits : \A o \in hits : m[1] <= o[1]
                     e == CHOOSE e \in m[2]..Len(text) :
                            /\ \A j \in m[2]..e : IsDigit(text[j])
                            /\ (e < Len(text) => ~IsDigit(text[e + 1]))
                 IN  ret = Return(<< Decimal(text, m[2], e) >>)

\* A count of two digits has been read from the second <p> of a page whose
\* first <p> does not contain the label.
C9_Witness ==
    /\ IsCountCall
    /\ Len(call.pg) = 2
    /\ LabelParagraphs = {2}
    /\ ret = Return(<< 12 >>)

IsDateCall == call.fn = "parse_invoice_date"

\* The f-th format accepts the text once stripped
Accepts(f, text) == strptime_date(Strip(text), POSSIBLE_FORMATS[f]).kind = "return"

\* The date a text written with call.gen stands for: the year of a two-digit
\* year is the one from 1969 to 2068
WrittenDate ==
    LET g == call.gen
        year == IF g[1] = 3 THEN CHOOSE y \in 1969..2068 : y % 100 = g[2] % 100 ELSE g[2]
    IN  << year, g[3], g[4] >>

\* C7: parse_invoice_date ignores the white space around the text; a date
\* written in one of the six formats is read back as that date, and whenever
\* some format matches, the result is the date of the first format that does.
C7_FirstMatchingFormat ==
    (IsDateCall /\ ret # Pending) =>
        /\ (call.gen # << >> /\ IsDate(WrittenDate[1], WrittenDate[2], WrittenDate[3]))
              => ret = Return(WrittenDate)
        /\ \A f \in 1..6 :
              (Accepts(f, call.a) /\ \A e \in 1..(f - 1) : ~Accepts(e, call.a))
                  => ret = strptime_date(Strip(call.a), POSSIBLE_FORMATS[f])

\* A date written inside white space with a two-digit year has been read.
C7_Witness ==
    /\ IsDateCall
    /\ ret.kind = "return"
    /\ call.gen # << >>
    /\ call.gen[6] = 2
    /\ call.gen[1] = 3
    /\ ret.val = << 1969, 2, 9 >>

\* C8: parse_invoice_date raises an AssertionError, no ValueError and no value,
\* when the stripped text matches none of the six formats; a day that the month
\* does not have is such a text in whatever format it is written.
C8_AssertionErrorWhenNoFormat ==
    (IsDateCall /\ ret # Pending) =>
        /\ (\A f \in 1..6 : ~Accepts(f, call.a)) => ret = Raise("AssertionError")
        /\ (call.gen # << >> /\ ~IsDate(WrittenDate[1], WrittenDate[2], WrittenDate[3]))
              => ret = Raise("AssertionError")

\* The 30th of February, written in the second format, has been refused.
C8_Witness ==
    /\ IsDateCall
    /\ ret = Raise("AssertionError")
    /\ call.gen # << >>
    /\ call.gen[1] = 2 /\ call.gen[3] = 2 /\ call.gen[4] = 30


---------------------------------------------------------------------------
(* The Recent Sales filter tests: test_rsp_manufacturer_field,             *)
(* test_rsp_model_field, test_rsp_source_id_field (alternating-case        *)
(* prefixes) and test_rsp_invoice_number_field (plain prefixes).           *)

MaxNameLen == 2      \* longest first-row value the filter tests read

\* if total_record_count <= 25
PageSize == 25

PrefixFilterTests ==
    { "test_rsp_manufacturer_field", "test_rsp_model_field", "test_rsp_source_id_field" }

InvoiceNumberTest == "test_rsp_invoice_number_field"

FilterTests == PrefixFilterTests \cup { InvoiceNumberTest }

NoCall == [fn |-> "", a |-> << >>, pg |-> << >>, n |-> 0, gen |-> << >>]

\* str.casefold(): lower case, the sharp s as "ss"
RECURSIVE Casefold(_)
Casefold(s) ==
    IF s = << >> THEN << >>
    ELSE (IF Head(s) = SharpS THEN << "s", "s" >> ELSE Lower(Head(s))) \o Casefold(Tail(s))

All == << "A", "l", "l" >>

\* The text of the checked <option> of a filter dropdown
SelectedTexts == { All, << " " >> \o All \o << "\n" >>, << "R", "e", "a", "d", "y" >> }

\* The first-row values: the prefixes of one value
NameBase == << "A", "b", "-", "1" >>

Names == { Take(NameBase, n) : n \in 1..MaxNameLen }

\* The same value as another row may show it: in lower case, white space around
OtherSpelling(name) == << " " >> \o LowerStr(name) \o << "\n" >>

CellTexts == Names \cup { OtherSpelling(name) : name \in Names } \cup { << >> }

\* A text that is none of the names
OddText == << "Z", "z" >>

RowCounts == { 0, 1, 2, PageSize }

\* k cells that show t, the last one showing u
Rows(k, t, u) == [ j \in 1..k |-> IF j = k /\ k > 1 THEN u ELSE t ]

CellLists ==
    { << >> }
    \cup { Rows(k, t, t) : k \in RowCounts \ { 0 }, t \in CellTexts }
    \cup { Rows(k, t, OddText) : k \in RowCounts \ { 0, 1 }, t \in CellTexts }

FilterCounts == { 0, 1, 2, PageSize, PageSize + 1 }

\* The <p> elements of a result page
ParagraphLists ==
    { << TotalRecordCountLabel \o << " " >> \o DigitsOf(n) >> : n \in FilterCounts }
    \cup { << >>, << TotalRecordCountLabel >> }

\* A Recent Sales page: the checked options of the three dropdowns, how many
\* elements the locators of the filter input, the Search button and the column
\* header link find, the texts of the column's cells and of the <p> elements
RecentSalesPage(sel, found, cells, paragraphs) ==
    [ market_actor |-> sel[1], status |-> sel[2], invoice_date |-> sel[3],
      inputs |-> found[1], buttons |-> found[2], header_links |-> found[3],
      cells |-> cells, paragraphs |-> paragraphs ]

AllSelected == << All, All, All >>

\* The pages a search may answer with
SearchResponses ==
    { RecentSalesPage(AllSelected, << 1, 1, 1 >>, cells, paragraphs) :
        cells \in CellLists, paragraphs \in ParagraphLists }
    \cup { RecentSalesPage(AllSelected, found, << NameBase >>,
                           << TotalRecordCountLabel \o << " ", "1" >> >>) :
             found \in { << 2, 1, 1 >>, << 1, 0, 1 >>, << 1, 1, 0 >> } }

\* The pages /salesdata/ may open with
LandingPages ==
    { RecentSalesPage(sel, << 1, 1, 1 >>, << >>, << >>) :
        sel \in SelectedTexts \X SelectedTexts \X SelectedTexts }
    \cup { RecentSalesPage(AllSelected, found, << >>, << >>) :
             found \in { << 0, 1, 1 >>, << 1, 2, 1 >> } }

FilterEnvirons == { NoEnv, [TARGET_URL |-> << "h", "/" >>] }

NoLocals == [ total_record_count |-> 0, full_value |-> << >>, i |-> 0 ]

\* The test goes on to the step at label
GoOn(label) == pc' = label /\ UNCHANGED <<outcome, error>>

\* The test ends: pytest reports o, and the exception e when one was raised
Finish(o, e) == pc' = "done" /\ outcome' = o /\ error' = e

\* The same without the wait for 'Total Record Count 0'
wait_for_rows_and_count(response) ==
    IF response.cells = << >> THEN Raise("Exception")
    ELSE get_total_record_count(response.paragraphs)

\* What search_by_manufacturer and its likes do with the page the click on
\* Search brings: the wait for a cell of the column or for
\* 'Total Record Count 0', and get_total_record_count
wait_and_count(response) ==
    LET has_rows == response.cells # << >>
        total_0 == \E k \in DOMAIN response.paragraphs :
                       HasText(response.paragraphs[k], TotalRecordCountLabel \o << " ", "0" >>)
    IN  IF ~has_rows /\ ~total_0 THEN Raise("Exception")
        ELSE get_total_record_count(response.paragraphs)

\* The pages a search may answer with, each with what the helper makes of it
SearchAnswers ==
    { [page |-> response, result |-> wait_and_count(response)] : response \in SearchResponses }

\* search_by_manufacturer and its likes, from the page the form is on and the
\* answer to the click on Search: the asserts on the input and the button come
\* first
search_by(form, answer) ==
    IF form.inputs # 1 \/ form.buttons # 1 THEN Raise("AssertionError") ELSE answer.result

\* The page after the call: Search is clicked only when the asserts held
PageAfterSearch(form, answer) ==
    IF form.inputs # 1 \/ form.buttons # 1 THEN form ELSE answer.page

\* The value typed in the i-th iteration of the loop
partial_value(t, full_value, i) ==
    IF t = InvoiceNumberTest THEN Take(full_value, i)
    ELSE build_alternating_case_prefix(full_value, i)

\* The same for a loop that narrows nothing
NarrowingUnchecked(updated_record_count, total_record_count) == TRUE

\* assert updated_record_count <= total_record_count
NarrowingHolds(updated_record_count, total_record_count) ==
    updated_record_count <= total_record_count

\* The same without the strictness: a prefix may leave the count as it was
InvoiceNarrowingNotStrict(i, length, updated_record_count, total_record_count) ==
    IF i < length THEN updated_record_count <= total_record_count
    ELSE updated_record_count = 1

\* if i < len(full_invoice_number): assert updated < total; else: assert updated == 1
InvoiceNarrowingHolds(i, length, updated_record_count, total_record_count) ==
    IF i < length THEN updated_record_count < total_record_count
    ELSE updated_record_count = 1

\* The per-row checks of the final validation
RowsMatch(cells, total_record_count, full_value) ==
    /\ Len(cells) >= total_record_count
    /\ \A idx \in 1..total_record_count :
          LET text == Strip(cells[idx]) IN
          text # << >> /\ Casefold(text) = Casefold(full_value)

\* The same without the per-row checks
FinalValidationWithoutRows(total_record_count, cells, full_value) == total_record_count > 0

\* The final validation of the three alternating-case tests
FinalValidationHolds(total_record_count, cells, full_value) ==
    /\ total_record_count > 0
    /\ total_record_count <= PageSize => RowsMatch(cells, total_record_count, full_value)

FilterInit ==
    /\ environ \in FilterEnvirons /\ call = NoCall /\ ret = Pending
    /\ test \in FilterTests
    /\ pc = "goto" /\ outcome = "running" /\ error = ""
    /\ locals = NoLocals
    /\ page \in LandingPages
    /\ searches = << >>

\* page.goto(url("/salesdata/"))
GotoRecentSales ==
    /\ test \in FilterTests /\ pc = "goto"
    /\ LET u == url(environ, << "/","s","a","l","e","s","d","a","t","a","/" >>) IN
       IF u.kind = "raise" THEN Finish("failed", u.exc) ELSE GoOn("default_filters")
    /\ UNCHANGED <<locals, page, searches, test>>
    /\ UNCHANGED helper_vars

\* Market Actor, Status and Invoice Date are set to "All"
VerifyDefaultFilters ==
    /\ test \in FilterTests /\ pc = "default_filters"
    /\ IF /\ Strip(page.market_actor) = All
          /\ Strip(page.status) = All
          /\ Strip(page.invoice_date) = All
       THEN GoOn("initial_search")
       ELSE Finish("failed", "AssertionError")
    /\ UNCHANGED <<locals, page, searches, test>>
    /\ UNCHANGED helper_vars

\* The search with the blank field, and the skip when it finds nothing
InitialSearch ==
    /\ test \in FilterTests /\ pc = "initial_search"
    /\ \E answer \in SearchAnswers :
          LET r == search_by(page, answer) IN
          /\ page' = PageAfterSearch(page, answer)
          /\ searches' = Append(searches, [value |-> << >>, result |-> r])
          /\ IF r.kind = "raise" THEN Finish("failed", r.exc) /\ UNCHANGED locals
             ELSE IF r.val[1] = 0 THEN Finish("skipped", "") /\ UNCHANGED locals
             ELSE /\ GoOn("first_row")
                  /\ locals' = [locals EXCEPT !.total_record_count = r.val[1]]
    /\ UNCHANGED test
    /\ UNCHANGED helper_vars

\* The header link, the first cell of the column and its text
ReadFirstRow ==
    /\ test \in FilterTests /\ pc = "first_row"
    /\ IF /\ page.header_links >= 1
          /\ page.cells # << >>
          /\ Strip(page.cells[1]) # << >>
          /\ locals.total_record_count > 0
       THEN /\ GoOn("loop")
            /\ locals' = [locals EXCEPT !.full_value = Strip(page.cells[1]), !.i = 1]
       ELSE Finish("failed", "AssertionError") /\ UNCHANGED locals
    /\ UNCHANGED <<page, searches, test>>
    /\ UNCHANGED helper_vars

\* One iteration of the loop over the prefixes
PrefixSearch ==
    /\ test \in FilterTests /\ pc = "loop"
    /\ locals.i <= Len(locals.full_value)
    /\ \E answer \in SearchAnswers :
          LET value == partial_value(test, locals.full_value, locals.i)
              r == search_by(page, answer)
          IN
          /\ page' = PageAfterSearch(page, answer)
          /\ searches' = Append(searches, [value |-> value, result |-> r])
          /\ IF r.kind = "raise" THEN Finish("failed", r.exc) /\ UNCHANGED locals
             ELSE IF IF test = InvoiceNumberTest
                     THEN InvoiceNarrowingHolds(locals.i, Len(locals.full_value),
                                                r.val[1], locals.total_record_count)
                     ELSE NarrowingHolds(r.val[1], locals.total_record_count)
             THEN /\ GoOn("loop")
                  /\ locals' = [locals EXCEPT !.total_record_count = r.val[1],
                                              !.i = locals.i + 1]
             ELSE Finish("failed", "AssertionError") /\ UNCHANGED locals
    /\ UNCHANGED test
    /\ UNCHANGED helper_vars

\* What follows the loop: at least one result, and the rows of a result that
\* fits on one page; for the Invoice Number exactly one result
FinalValidation ==
    /\ test \in FilterTests /\ pc = "loop"
    /\ locals.i > Len(locals.full_value)
    /\ IF IF test = InvoiceNumberTest
          THEN locals.total_record_count = 1
          ELSE FinalValidationHolds(locals.total_record_count, page.cells, locals.full_value)
       THEN Finish("passed", "")
       ELSE Finish("failed", "AssertionError")
    /\ UNCHANGED <<locals, page, searches, test>>
    /\ UNCHANGED helper_vars

FilterNext ==
    \/ GotoRecentSales
    \/ VerifyDefaultFilters
    \/ InitialSearch
    \/ ReadFirstRow
    \/ PrefixSearch
    \/ FinalValidation

SpecFilter == FilterInit /\ [][FilterNext]_vars

---------------------------------------------------------------------------
(* Claims about the filter tests.                                          *)

Passed(tests) == test \in tests /\ outcome = "passed"

\* The count the k-th search returned
Count(k) == searches[k].result.val[1]

\* The searches of a run that went through the whole loop: the blank one, then
\* one per prefix length, each of which returned a count
SearchedEveryPrefix ==
    LET n == Len(locals.full_value) IN
    /\ Len(searches) = n + 1
    /\ searches[1].value = << >>
    /\ \A k \in 1..(n + 1) : searches[k].result.kind = "return"
    /\ \A k \in 1..n : searches[k + 1].value = partial_value(test, locals.full_value, k)

\* C3: a Manufacturer, Model or Source ID filter test passes only if, for every
\* i from 1 to the length of the first-row value, the search with the
\* alternating-case prefix of length i returned a count <= the count of the
\* search before it (the blank search for i = 1).
C3_CountNeverIncreases ==
    Passed(PrefixFilterTests) =>
        /\ SearchedEveryPrefix
        /\ \A k \in 1..Len(locals.full_value) :
              /\ searches[k + 1].value =
                     build_alternating_case_prefix(locals.full_value, k)
              /\ Count(k + 1) <= Count(k)

\* A passing run over a value of two characters whose first prefix narrowed
\* the result from more than a page and whose second prefix left it as it was.
C3_Witness ==
    /\ Passed(PrefixFilterTests)
    /\ Len(locals.full_value) = 2
    /\ Count(1) > PageSize
    /\ Count(2) < Count(1)
    /\ Count(3) = Count(2)
    /\ searches[3].value # locals.full_value

\* C4 as stated: test_rsp_manufacturer_field passes only if the count after
\* the full Manufacturer name is <= 25 and the rows it counts match the
\* first-row name under case folding; no run with a final count above 25
\* passes.
C4_FinalCountWithinOnePage ==
    Passed({ "test_rsp_manufacturer_field" }) =>
        /\ locals.total_record_count <= PageSize
        /\ RowsMatch(page.cells, locals.total_record_count, locals.full_value)

C28_CountsNeverIncrease ==
    Passed({ InvoiceNumberTest }) =>
        /\ SearchedEveryPrefix
        /\ \A k \in 1..Len(locals.full_value) : Count(k + 1) <= Count(k)

\* What holds of it: the counts fall strictly up to the longest proper prefix,
\* and the last step ends on 1 whatever the count before it
CountsFallBeforeTheLastStep ==
    Passed({ InvoiceNumberTest }) =>
        /\ SearchedEveryPrefix
        /\ \A k \in 1..(Len(locals.full_value) - 1) : Count(k + 1) < Count(k)
        /\ Count(Len(locals.full_value) + 1) = 1

\* A passing run whose longest proper prefix found no record and whose full
\* number found one
PassedFromZeroToOne ==
    /\ Passed({ InvoiceNumberTest })
    /\ Len(locals.full_value) = 2
    /\ Count(2) = 0
    /\ Count(3) = 1

ModelAndSourceIdTests == { "test_rsp_model_field", "test_rsp_source_id_field" }

\* The loop over the prefixes is over and the final validation has been made
FinalValidationMade ==
    /\ pc = "done"
    /\ locals.full_value # << >>
    /\ locals.i = Len(locals.full_value) + 1

\* C21: in the Model and Source ID tests, after the search with the full
\* alternating-case value, the test fails on a count of 0; on a count from 1
\* to 25 it passes exactly when the page holds at least that many cells of the
\* column and each of the first count cells is non-empty and equal to the
\* first-row value under case folding; on a count above 25 it passes whatever
\* the cells show.
C21_FinalValidationByCount ==
    (test \in ModelAndSourceIdTests /\ FinalValidationMade) =>
        LET count == locals.total_record_count IN
        /\ searches[Len(searches)].value =
               build_alternating_case_prefix(locals.full_value, Len(locals.full_value))
        /\ count = Count(Len(searches))
        /\ count = 0 => outcome = "failed"
        /\ count \in 1..PageSize =>
              (outcome = "passed" <=>
                   /\ Len(page.cells) >= count
                   /\ \A idx \in 1..count :
                         /\ Strip(page.cells[idx]) # << >>
                         /\ Casefold(Strip(page.cells[idx])) = Casefold(locals.full_value))
        /\ outcome = "failed" => error = "AssertionError"
        /\ count > PageSize => outcome = "passed"

\* A Model or Source ID run has passed on two rows that spell the first-row
\* value in another case, with white space around it.
C21_Witness ==
    /\ Passed(ModelAndSourceIdTests)
    /\ locals.total_record_count = 2
    /\ Len(page.cells) = 2
    /\ page.cells[2] = OtherSpelling(locals.full_value)
    /\ page.cells[2] # locals.full_value

\* Such a run has passed on a count above 25 with a row that shows another
\* value, and another has failed on a count of 0.
PassedAboveOnePage ==
    /\ Passed(ModelAndSourceIdTests)
    /\ locals.total_record_count = PageSize + 1
    /\ \E idx \in DOMAIN page.cells : page.cells[idx] = OddText

FailedOnCountZero ==
    /\ test \in ModelAndSourceIdTests /\ FinalValidationMade
    /\ locals.total_record_count = 0 /\ outcome = "failed"

---------------------------------------------------------------------------
(* search_by_manufacturer, search_by_model, search_by_source_id and        *)
(* search_by_invoice_number, called on their own: call.a is the value,     *)
(* call.pg the page the call finds, locals the text of the field and what  *)
(* the call did to the page, in order.                                     *)

SearchHelpers ==
    { "search_by_manufacturer", "search_by_model", "search_by_source_id",
      "search_by_invoice_number" }

SearchValues == { << >>, << "A" >>, << "a", "B" >> }

\* The pages a call may find: the locators of the field and of the Search
\* button find one element each, or none, or two
SearchForms ==
    { RecentSalesPage(AllSelected, found, << >>, << >>) :
        found \in { << 1, 1, 1 >>, << 0, 1, 1 >>, << 2, 1, 1 >>, << 1, 0, 1 >>, << 1, 2, 1 >> } }

\* What the field holds before the call
FieldTexts == { << >>, << "Z" >> }

\* locator.fill(text): the field holds text
Fill(input, text) == text

\* locator.type(text): the keys of text are added to what the field holds
Type(input, text) == input \o text

\* The field and the steps made after the assert on the field held: fill(""),
\* type(value) for a value that is not empty
FieldAfterValue(field, value) ==
    IF value = << >>
    THEN [input |-> Fill(field.input, << >>), events |-> << "fill" >>]
    ELSE [input |-> Type(Fill(field.input, << >>), value), events |-> << "fill", "type" >>]

\* The field and the steps of a whole call on the page form
FieldAfterSearch(form, field, value) ==
    IF form.inputs # 1 THEN field
    ELSE IF form.buttons # 1 THEN FieldAfterValue(field, value)
    ELSE [FieldAfterValue(field, value) EXCEPT !.events = Append(@, "click")]

SearchCalls ==
    { [fn |-> fn, a |-> value, pg |-> form, n |-> 0, gen |-> << >>] :
        fn \in SearchHelpers, value \in SearchValues, form \in SearchForms }

SearchInit ==
    /\ environ = Idle /\ call \in SearchCalls /\ ret = Pending
    /\ test = "" /\ pc = "" /\ outcome = "" /\ error = ""
    /\ locals \in { [input |-> text, events |-> << >>] : text \in FieldTexts }
    /\ page = call.pg
    /\ searches = << >>

\* One call of one of the four helpers
SearchByField ==
    /\ call.fn \in SearchHelpers
    /\ ret = Pending
    /\ \E answer \in SearchAnswers :
          /\ ret' = search_by(page, answer)
          /\ page' = PageAfterSearch(page, answer)
    /\ locals' = FieldAfterSearch(page, locals, call.a)
    /\ UNCHANGED <<environ, call, test, pc, outcome, error, searches>>

SpecSearch == SearchInit /\ [][SearchByField]_vars

IsSearchCall == call.fn \in SearchHelpers /\ ret # Pending

\* A cell of the column is on the page
ResultCellVisible == page.cells # << >>

\* A <p> of the page has the text 'Total Record Count 0'
TotalZeroVisible ==
    \E k \in DOMAIN page.paragraphs :
        HasText(page.paragraphs[k], TotalRecordCountLabel \o << " ", "0" >>)

\* The steps of a call that got as far as the click
StepsWithClick ==
    IF call.a = << >> THEN << "fill", "click" >> ELSE << "fill", "type", "click" >>

RowsWithoutCountTimeOut ==
    /\ IsSearchCall
    /\ locals.events = StepsWithClick
    /\ ResultCellVisible
    /\ ret = Raise("TimeoutError")

---------------------------------------------------------------------------
(* The dashboard widget tests: Dismissed Last 30 Days, Exported Last 30    *)
(* Days and Unassigned. Each is the function                               *)
(* test_dashboard_sales_summary_section of its own file, named here by the *)
(* file. A text is a sequence of characters in which a fixed phrase, a     *)
(* host or a query may stand as one character.                             *)

DismissedTest == "test_dashboard_dismissed_last_30_days_widget"
ExportedTest == "test_dashboard_exported_last_30_days_widget"
UnassignedTest == "test_dashboard_unassigned_widget"

WidgetTests == { DismissedTest, ExportedTest, UnassignedTest }

ProgramTest == "test_dashboard_program_widget_features"

MarketActorTest == "test_dashboard_market_actor_check"

\* The tests that open the dashboard first
ProgramMatchTest == "test_dashboard_program_widgets_match_market_actor"

AccordionTest == "test_dashboard_ma_card_accordion"

DashboardTests ==
    WidgetTests \cup { ProgramTest, MarketActorTest, ProgramMatchTest, AccordionTest }

StagingHost == "https://ic-staging.staging.aws.incentiveconnect.com"
OtherHost == "https://ic.example.test"

DashboardPath == << "/", "dashboard/" >>
SalesdataPath == << "/", "salesdata/" >>

DismissedQuery == "?status=DISMISSED&dismissed_date=30&market_actor=0"
ExportedQuery == "?status=EXPORTED&exported_date=30&market_actor=0"
UnassignedQuery == "?status=UNASSIGNED&market_actor=0"
DismissedQueryOfActor7 == "?status=DISMISSED&dismissed_date=30&market_actor=7"

Queries == { DismissedQuery, ExportedQuery, UnassignedQuery, DismissedQueryOfActor7 }

\* The query of the URL the test expects after the click
ExpectedQuery(t) ==
    CASE t = DismissedTest -> DismissedQuery
      [] t = ExportedTest -> ExportedQuery
      [] t = UnassignedTest -> UnassignedQuery

\* expected_url, written out in the test with the staging host
expected_url(t) == << StagingHost >> \o SalesdataPath \o << ExpectedQuery(t) >>

\* The attribute selector of the counter link, applied to a link's href
CounterLinkSelector(t, href) ==
    CASE t = DismissedTest -> href[3] \in { DismissedQuery, DismissedQueryOfActor7 }
      [] t = ExportedTest -> SubSeq(href, 1, 2) = SalesdataPath
      [] t = UnassignedTest -> href[3] = UnassignedQuery

WidgetLabel(t) ==
    CASE t = DismissedTest -> "Dismissed Last 30 Days"
      [] t = ExportedTest -> "Exported Last 30 Days"
      [] t = UnassignedTest -> "Unassigned"

WidgetTooltip(t) ==
    CASE t = DismissedTest ->
             "Records that have been archived because they can't be completed or exported."
      [] t = ExportedTest -> "Records that have been previously batched."
      [] t = UnassignedTest -> "Records that did not match a program."

\* The checked option the test expects of the Status dropdown
WidgetStatus(t) ==
    CASE t = DismissedTest -> "Dismissed"
      [] t = ExportedTest -> "Exported"
      [] t = UnassignedTest -> "Unassigned"

\* The checked option it expects of the third dropdown: Dismissed Date,
\* Exported Date, Invoice Date
WidgetDate(t) == IF t = UnassignedTest THEN "All" ELSE "Last 30 Days"

SuperscriptTwo == "U+00B2"

\* str.isdigit(): not empty, every character a digit; the superscript two is one
isdigit(s) == s # << >> /\ \A k \in DOMAIN s : IsDigit(s[k]) \/ s[k] = SuperscriptTwo

\* int() of a string for which isdigit() holds
int(s) ==
    IF \E k \in DOMAIN s : s[k] = SuperscriptTwo THEN Raise("ValueError")
    ELSE Return(<< ToInt(s) >>)

\* str.startswith and str.endswith
startswith(s, t) == MatchesAt(s, 1, t)
endswith(s, t) == Len(t) <= Len(s) /\ SubSeq(s, Len(s) - Len(t) + 1, Len(s)) = t

\* str.replace(t, ""): every occurrence of t, from the left
RECURSIVE RemoveAll(_, _)
RemoveAll(s, t) ==
    IF s = << >> THEN << >>
    ELSE IF MatchesAt(s, 1, t) THEN RemoveAll(Drop(s, Len(t)), t)
    ELSE << Head(s) >> \o RemoveAll(Tail(s), t)

\* A text with white space around it, as inner_text may give it
Padded(s) == << " " >> \o s \o << "\n" >>

ActorName == << "Acme" >>

CardTitles == { ActorName, Padded(ActorName), << >> }

CounterTexts ==
    { << "0" >>, << "7" >>, << "0", "7" >>, << "1", "2" >>, Padded(<< "7" >>),
      << >>, << "x" >>, << "-", "1" >>, << SuperscriptTwo >> }

Link(query, text) == [href |-> SalesdataPath \o << query >>, text |-> text]

\* The links of the card, in document order: one, or two of different queries
LinkLists ==
    { << >> }
    \cup { << Link(q, t) >> : q \in Queries, t \in CounterTexts }
    \cup { << Link(qr[1], << "5" >>), Link(qr[2], << "7" >>) >> :
             qr \in { x \in Queries \X Queries : x[1] # x[2] } }

\* The first Market Actor card of a dashboard: its title, the title of its
\* summary section, the label and the tooltip of the widget, its links
Card(title, section, label, tooltip, links) ==
    [title |-> title, section |-> section, label |-> label, tooltip |-> tooltip,
     links |-> links]

GoodCard(t, title, links) ==
    Card(title, << "Sales Records Summary" >>, << WidgetLabel(t) >>, << WidgetTooltip(t) >>,
         links)

\* The cards test t may find: a good one, or one with one thing wrong
Cards(t) ==
    { GoodCard(t, title, links) : title \in CardTitles, links \in LinkLists }
    \cup { Card(ActorName, section, << WidgetLabel(t) >>, << WidgetTooltip(t) >>, << >>) :
             section \in { << >>, << "Sales Records Summary", " ", "2024" >> } }
    \cup { Card(ActorName, << "Sales Records Summary" >>, label, << WidgetTooltip(t) >>, << >>) :
             label \in { << >>, << WidgetLabel(t), " ", "(new)" >> } }
    \cup { Card(ActorName, << "Sales Records Summary" >>, << WidgetLabel(t) >>, tooltip, << >>) :
             tooltip \in { << >>, << "Records." >> } }

\* The texts of a <p> element of Recent Sales
TotalTexts ==
    { TotalRecordCountLabel \o << " " >> \o DigitsOf(n) : n \in { 0, 7, 12 } }
    \cup { TotalRecordCountLabel \o << "\n", "0", "7", " " >>,
           TotalRecordCountLabel \o << "7" >>,
           TotalRecordCountLabel,
           TotalRecordCountLabel \o << ":", " ", "7" >>,
           TotalRecordCountLabel \o << " ", "7", " ", "x" >>,
           TotalRecordCountLabel \o << " ", SuperscriptTwo >>,
           LowerStr(TotalRecordCountLabel) \o << " ", "7" >>,
           << "x", " " >> \o TotalRecordCountLabel \o << " ", "7" >> }

WidgetParagraphLists ==
    { << >> }
    \cup { << t >> : t \in TotalTexts }
    \cup { << << "x" >>, t >> : t \in TotalTexts }
    \cup { << TotalRecordCountLabel \o << " ", "1", "2" >>, TotalRecordCountLabel \o << " ", "7" >> >> }

\* The Recent Sales page a counter link leads to: the checked options of
\* Market Actor, Status (text and value) and the third dropdown, the <p> texts
Sales(market_actor, status, status_value, date, paragraphs) ==
    [market_actor |-> market_actor, status |-> status, status_value |-> status_value,
     date |-> date, paragraphs |-> paragraphs]

GoodSales(t, market_actor, paragraphs) ==
    Sales(market_actor, << WidgetStatus(t) >>, << "UNASSIGNED" >>, << WidgetDate(t) >>, paragraphs)

SalesPages(t) ==
    { GoodSales(t, market_actor, paragraphs) :
        market_actor \in { ActorName, Padded(ActorName) }, paragraphs \in WidgetParagraphLists }
    \cup { GoodSales(t, << "All" >>, << >>) }
    \cup { Sales(ActorName, << "All" >>, << "UNASSIGNED" >>, << WidgetDate(t) >>, << >>),
           Sales(ActorName, << WidgetStatus(t) >>, << "ALL" >>, << WidgetDate(t) >>, << >>),
           Sales(ActorName, << WidgetStatus(t) >>, << "UNASSIGNED" >>, << "Last 60 Days" >>, << >>) }

WidgetEnvirons ==
    { NoEnv, [TARGET_URL |-> << StagingHost >>], [TARGET_URL |-> << StagingHost, "/" >>],
      [TARGET_URL |-> << OtherHost >>] }

LoginPath == << "/", "login/" >>

NoSales == << >>

NoWidgetLocals == [market_actor_name |-> << >>, counter |-> << >>]

\* The first link of the card the selector of test t accepts, 0 when none
FirstCounterLink(t, links) ==
    LET hits == { k \in DOMAIN links : CounterLinkSelector(t, links[k].href) } IN
    IF hits = {} THEN 0 ELSE CHOOSE k \in hits : \A l \in hits : k <= l

\* The site answers from the host of TARGET_URL, with the dashboard or with
\* its login page
WidgetInit ==
    /\ environ \in WidgetEnvirons /\ call = NoCall /\ ret = Pending
    /\ test \in WidgetTests
    /\ pc = "goto" /\ outcome = "running" /\ error = ""
    /\ locals = NoWidgetLocals
    /\ \E path \in { DashboardPath, LoginPath }, card \in Cards(test) :
          page = [url |-> << >>, path |-> path, card |-> card, sales |-> NoSales]
    /\ searches = << >>

\* page.goto(url("/dashboard/")) and the check of page.url
GotoDashboard ==
    /\ test \in DashboardTests /\ pc = "goto"
    /\ LET u == url(environ, DashboardPath) IN
       IF u.kind = "raise" THEN Finish("failed", u.exc) /\ UNCHANGED page
       ELSE LET at == base_url(environ).val \o page.path IN
            /\ page' = [page EXCEPT !.url = at]
            /\ IF endswith(at, DashboardPath) THEN GoOn("card")
               ELSE Finish("failed", "Exception")
    /\ UNCHANGED <<locals, searches, test>>
    /\ UNCHANGED helper_vars

\* The card's name, the section title, the widget's label and its tooltip
ReadCard ==
    /\ test \in WidgetTests /\ pc = "card"
    /\ LET card == page.card
           market_actor_name == Strip(card.title)
       IN  IF market_actor_name = << >> THEN Finish("failed", "AssertionError") /\ UNCHANGED locals
           ELSE IF ~HasText(card.section, << "Sales Records Summary" >>)
                   \/ ~HasText(card.label, << WidgetLabel(test) >>)
                THEN Finish("failed", "TimeoutError") /\ UNCHANGED locals
           ELSE IF \/ Strip(card.section) # << "Sales Records Summary" >>
                   \/ Strip(card.label) # << WidgetLabel(test) >>
                   \/ Strip(card.tooltip) # << WidgetTooltip(test) >>
                THEN Finish("failed", "AssertionError") /\ UNCHANGED locals
           ELSE /\ GoOn("counter")
                /\ locals' = [locals EXCEPT !.market_actor_name = market_actor_name]
    /\ UNCHANGED <<page, searches, test>>
    /\ UNCHANGED helper_vars

\* The counter link and its text
ReadCounter ==
    /\ test \in WidgetTests /\ pc = "counter"
    /\ LET k == FirstCounterLink(test, page.card.links) IN
       IF k = 0 THEN Finish("failed", "TimeoutError") /\ UNCHANGED locals
       ELSE LET counter == Strip(page.card.links[k].text) IN
            IF ~isdigit(counter) THEN Finish("failed", "AssertionError") /\ UNCHANGED locals
            ELSE GoOn("click") /\ locals' = [locals EXCEPT !.counter = counter]
    /\ UNCHANGED <<page, searches, test>>
    /\ UNCHANGED helper_vars

\* The click on the counter link, which opens its href on the host of the
\* dashboard, and the wait for expected_url
ClickCounterLink ==
    /\ test \in WidgetTests /\ pc = "click"
    /\ \E sales \in SalesPages(test) :
          LET link == page.card.links[FirstCounterLink(test, page.card.links)]
              at == << Head(page.url) >> \o link.href
          IN
          /\ page' = [page EXCEPT !.url = at, !.sales = sales]
          /\ searches' = Append(searches, [value |-> link, result |-> sales])
          /\ IF at = expected_url(test) THEN GoOn("filters")
             ELSE Finish("failed", "TimeoutError")
    /\ UNCHANGED <<locals, test>>
    /\ UNCHANGED helper_vars

\* The checked options of Market Actor, Status and the third dropdown
VerifyWidgetFilters ==
    /\ test \in WidgetTests /\ pc = "filters"
    /\ IF /\ Strip(page.sales.market_actor) = locals.market_actor_name
          /\ Strip(page.sales.status) = << WidgetStatus(test) >>
          /\ test = UnassignedTest => Strip(page.sales.status_value) = << "UNASSIGNED" >>
          /\ Strip(page.sales.date) = << WidgetDate(test) >>
       THEN GoOn("total")
       ELSE Finish("failed", "AssertionError")
    /\ UNCHANGED <<locals, page, searches, test>>
    /\ UNCHANGED helper_vars

\* The same without the comparison
CountersUncompared(total_record_count, counter) == TRUE

\* assert int(total_record_count) == int(counter)
CountersMatch(total_record_count, counter) == total_record_count = counter

\* Total Record Count, read and compared with the counter
CompareTotalRecordCount ==
    /\ test \in WidgetTests /\ pc = "total"
    /\ LET k == FirstParagraph(page.sales.paragraphs) IN
       IF k = 0 THEN Finish("failed", "TimeoutError")
       ELSE LET total_record_count_text == Strip(page.sales.paragraphs[k])
                total_record_count ==
                    Strip(RemoveAll(total_record_count_text, TotalRecordCountLabel))
            IN  IF \/ ~startswith(total_record_count_text, TotalRecordCountLabel)
                   \/ ~isdigit(total_record_count)
                THEN Finish("failed", "AssertionError")
                ELSE IF int(total_record_count).kind = "raise" \/ int(locals.counter).kind = "raise"
                THEN Finish("failed", "ValueError")
                ELSE IF CountersMatch(int(total_record_count).val[1], int(locals.counter).val[1])
                THEN Finish("passed", "")
                ELSE Finish("failed", "AssertionError")
    /\ UNCHANGED <<locals, page, searches, test>>
    /\ UNCHANGED helper_vars

WidgetNext ==
    \/ GotoDashboard
    \/ ReadCard
    \/ ReadCounter
    \/ ClickCounterLink
    \/ VerifyWidgetFilters
    \/ CompareTotalRecordCount

SpecWidget == WidgetInit /\ [][WidgetNext]_vars

---------------------------------------------------------------------------
(* Claims about the dashboard widget tests.                                *)

\* text is the decimal writing of n
WritesInteger(text, n) ==
    /\ text # << >>
    /\ \A k \in DOMAIN text : IsDigit(text[k])
    /\ Decimal(text, 1, Len(text)) = n

\* text shows n as Total Record Count: the label, then the writing of n
ShowsTotalRecordCount(text, n) ==
    /\ MatchesAt(text, 1, TotalRecordCountLabel)
    /\ WritesInteger(Strip(Drop(text, Len(TotalRecordCountLabel))), n)

MaxShown == 12

\* C1: a Dismissed Last 30 Days, Exported Last 30 Days or Unassigned widget
\* test passes only if the counter link of the widget on the first Market
\* Actor card shows a non-negative integer, the click on it led to the Recent
\* Sales page, and that page shows the same integer as Total Record Count.
C1_CounterEqualsTotalRecordCount ==
    Passed(WidgetTests) =>
        /\ Len(searches) = 1
        /\ searches[1].value \in Range(page.card.links)
        /\ searches[1].value.href = SalesdataPath \o << ExpectedQuery(test) >>
        /\ searches[1].result = page.sales
        /\ page.url = expected_url(test)
        /\ FirstParagraph(page.sales.paragraphs) # 0
        /\ \E n \in 0..MaxShown :
              /\ WritesInteger(Strip(searches[1].value.text), n)
              /\ ShowsTotalRecordCount(
                     Strip(page.sales.paragraphs[FirstParagraph(page.sales.paragraphs)]), n)

\* A passing run in which the counter shows 07 and the page, in its second <p>,
\* Total Record Count 7.
C1_Witness ==
    /\ Passed(WidgetTests)
    /\ Strip(searches[1].value.text) = << "0", "7" >>
    /\ Len(page.sales.paragraphs) = 2
    /\ page.sales.paragraphs[2] = TotalRecordCountLabel \o << " ", "7" >>

\* The counter link has been clicked
CounterLinkClicked == test \in WidgetTests /\ searches # << >>

\* The path and query of the URL the test expects
ExpectedHref(t) == SalesdataPath \o << ExpectedQuery(t) >>

\* C29: the URL the Dismissed, Exported and Unassigned widget tests expect after
\* the click on the counter link is url() of the link's path and query, so a
\* site that is served from another TARGET_URL host and answers the click with
\* the same path and query brings the test to the URL it expects.
C29_ExpectedUrlFollowsTargetUrl ==
    CounterLinkClicked =>
        /\ searches[1].value.href = ExpectedHref(test) =>
               expected_url(test) = url(environ, searches[1].value.href).val
        /\ searches[1].value.href = ExpectedHref(test) => page.url = expected_url(test)

\* What holds of it: the expected URL is the one of the staging host, whatever
\* TARGET_URL is, and the click step is passed only on that host
ExpectedUrlIsOnStaging ==
    CounterLinkClicked =>
        /\ Head(expected_url(test)) = StagingHost
        /\ pc # "done" => Head(page.url) = StagingHost
        /\ Head(page.url) # StagingHost => outcome = "failed" /\ error = "TimeoutError"

\* The site is served from another host than the one written in the test,
\* the link had the path and query the test expects, and the test failed on
\* the wait for the URL.
FailedOnOtherHost ==
    /\ CounterLinkClicked
    /\ environ = [TARGET_URL |-> << OtherHost >>]
    /\ searches[1].value.href = ExpectedHref(test)
    /\ page.url = << OtherHost >> \o ExpectedHref(test)
    /\ outcome = "failed" /\ error = "TimeoutError"

---------------------------------------------------------------------------
(* test_dashboard_program_widget_features                                  *)

ProgramLabels ==
    << "Ready For Export", "Incomplete Records", "Expired Records", "Last Exported Date" >>

\* The tooltips the test accepts for each row
AcceptableTooltips ==
    << { "Records that are complete and ready to batch." },
       { "Records that are missing program-required data." },
       { "The sale does not match an active program's eligibility parameters, e.g., sales date, equipment/product type, and/or location.",
         "The sales does not match an active program's eligibility parameters, e.g., sales date, equipment/product type, and/or location." },
       { "Records that have been previously batched." } >>

\* The same with the second and the third status changing places
StatusLabelSwapped(k) == << "Ready", "Expired", "Incomplete Requirements" >>[k]

\* The Status selected before the k-th search
StatusLabel(k) == << "Ready", "Incomplete Requirements", "Expired" >>[k]

\* re.fullmatch(r"\d{2}/\d{2}/\d{4}", s)
IsDateShaped(s) ==
    /\ Len(s) = 10
    /\ \A k \in 1..10 : IF k \in { 3, 6 } THEN s[k] = "/" ELSE IsDigit(s[k])

Row(label, tooltip, value) == [label |-> label, tooltip |-> tooltip, value |-> value]

ProgramCounterTexts == { << "1" >>, << "2" >>, Padded(<< "0", "3" >>) }

ExportDate == << "0", "1", "/", "3", "1", "/", "2", "0", "2", "4" >>

\* The four rows of a program widget
GoodRows(rfe, incomplete, expired) ==
    << Row(<< ProgramLabels[1] >>, << "Records that are complete and ready to batch." >>, rfe),
       Row(<< ProgramLabels[2] >>, << "Records that are missing program-required data." >>,
           incomplete),
       Row(<< ProgramLabels[3] >>,
           << "The sales does not match an active program's eligibility parameters, e.g., sales date, equipment/product type, and/or location." >>,
           expired),
       Row(<< ProgramLabels[4] >>, << "Records that have been previously batched." >>, ExportDate) >>

ProgramName == << "Heat Pumps" >>
SecondProgramName == << "Boilers" >>

Widget(name, rows) == [name |-> name, rows |-> rows]

SecondWidget == Widget(SecondProgramName, GoodRows(<< "9" >>, << "9" >>, << "9" >>))

\* The rows of a widget with one thing wrong in the k-th
BadRows(k, what) ==
    LET rows == GoodRows(<< "1" >>, << "2" >>, << "3" >>) IN
    [rows EXCEPT ![k] =
        CASE what = "tooltip" -> [@ EXCEPT !.tooltip = << "Records." >>]
          [] what = "value" -> [@ EXCEPT !.value = << "1", "/", "3", "1", "/", "2", "0", "2", "4" >>]
          [] what = "int" -> [@ EXCEPT !.value = << SuperscriptTwo >>]]

\* The first Market Actor card with its program widgets, and whether the side
\* panel has the Recent Sales link
ProgramCard(title, widgets, nav_link) ==
    [title |-> title, widgets |-> widgets, nav_link |-> nav_link]

ProgramCards ==
    { ProgramCard(title, << Widget(name, GoodRows(rfe, incomplete, expired)) >> \o more, TRUE) :
        title \in { ActorName, Padded(ActorName) }, name \in { ProgramName, Padded(ProgramName) },
        rfe \in ProgramCounterTexts, incomplete \in ProgramCounterTexts,
        expired \in ProgramCounterTexts, more \in { << >>, << SecondWidget >> } }
    \cup { ProgramCard(ActorName, << Widget(ProgramName, BadRows(k, what)) >>, TRUE) :
             k \in 1..4, what \in { "tooltip", "value", "int" } }
    \cup { ProgramCard(<< >>, << SecondWidget >>, TRUE),
           ProgramCard(ActorName, << >>, TRUE),
           ProgramCard(ActorName, << Widget(<< " " >>, GoodRows(<< "1" >>, << "2" >>, << "3" >>)) >>, TRUE),
           ProgramCard(ActorName, << Widget(ProgramName, << >>) >>, TRUE),
           ProgramCard(ActorName, << SecondWidget >>, FALSE) }

\* The rows of the card, in document order
RECURSIVE RowsOf(_)
RowsOf(widgets) ==
    IF widgets = << >> THEN << >> ELSE Head(widgets).rows \o RowsOf(Tail(widgets))

\* _assert_row_tooltip_and_value for the k-th label: the first row of the card
\* with the label, its tooltip, and its value, a number for the first three
assert_row_tooltip_and_value(card, k) ==
    LET rows == RowsOf(card.widgets)
        hits == { j \in DOMAIN rows : HasText(rows[j].label, << ProgramLabels[k] >>) }
    IN  IF hits = {} THEN Raise("TimeoutError")
        ELSE LET row == rows[CHOOSE j \in hits : \A l \in hits : j <= l]
                 tooltip_text == Strip(row.tooltip)
                 value_text == Strip(row.value)
             IN  IF Len(tooltip_text) # 1 \/ tooltip_text[1] \notin AcceptableTooltips[k]
                 THEN Raise("AssertionError")
                 ELSE IF k <= 3 /\ ~isdigit(value_text) THEN Raise("AssertionError")
                 ELSE IF k = 4 /\ ~IsDateShaped(value_text) THEN Raise("AssertionError")
                 ELSE Return(value_text)

\* The options of the three dropdowns of Recent Sales
SalesOptions ==
    { [market_actor |-> ma, status |-> st, program |-> pr] :
        ma \in { { << "All" >>, ActorName } },
        st \in { { << "All" >>, << "Ready" >>, << "Incomplete Requirements" >>, << "Expired" >> } },
        pr \in { { << "---------" >>, ProgramName, SecondProgramName } } }
    \cup { [market_actor |-> { << "All" >> },
            status |-> { << "All" >>, << "Ready" >>, << "Incomplete Requirements" >>, << "Expired" >> },
            program |-> { << "---------" >>, ProgramName }],
           [market_actor |-> { << "All" >>, ActorName },
            status |-> { << "All" >>, << "Ready" >>, << "Incomplete Requirements" >> },
            program |-> { << "---------" >>, ProgramName }],
           [market_actor |-> { << "All" >>, ActorName },
            status |-> { << "All" >>, << "Incomplete Requirements" >>, << "Expired" >> },
            program |-> { << "---------" >>, ProgramName }],
           [market_actor |-> { << "All" >>, ActorName },
            status |-> { << "All" >>, << "Ready" >>, << "Incomplete Requirements" >>, << "Expired" >> },
            program |-> { << "---------" >>, SecondProgramName }] }

\* Recent Sales as the side panel link opens it: nothing selected, no result
SalesForm(options) ==
    [market_actor |-> << "All" >>, status |-> << "All" >>, program |-> << "---------" >>,
     options |-> options, paragraphs |-> << >>]

ProgramParagraphLists ==
    { << TotalRecordCountLabel \o << " " >> \o DigitsOf(n) >> : n \in 0..3 }
    \cup { << >>, << TotalRecordCountLabel \o << "2" >> >>,
           << << "x" >>, TotalRecordCountLabel \o << "\n", "0", "3" >> >> }

\* What the searches of the test answer with, each with the count read from it
ProgramAnswers ==
    { [paragraphs |-> ps, result |-> get_total_record_count(ps)] : ps \in ProgramParagraphLists }

NoProgramLocals ==
    [market_actor_name |-> << >>, program_widget_name |-> << >>,
     program_widget_rfe_counter |-> << >>, program_widget_incomplete_counter |-> << >>,
     program_widget_expired_counter |-> << >>, program_widget_last_export_date |-> << >>]

ProgramInit ==
    /\ environ \in WidgetEnvirons /\ call = NoCall /\ ret = Pending
    /\ test = ProgramTest
    /\ pc = "goto" /\ outcome = "running" /\ error = ""
    /\ locals = NoProgramLocals
    /\ \E path \in { DashboardPath, LoginPath }, card \in ProgramCards :
          page = [url |-> << >>, path |-> path, card |-> card, sales |-> NoSales]
    /\ searches = << >>

\* The card's name and the name of its first program widget
ReadProgramWidget ==
    /\ test = ProgramTest /\ pc = "card"
    /\ LET card == page.card IN
       IF Strip(card.title) = << >> THEN Finish("failed", "AssertionError") /\ UNCHANGED locals
       ELSE IF card.widgets = << >> THEN Finish("failed", "TimeoutError") /\ UNCHANGED locals
       ELSE IF Strip(card.widgets[1].name) = << >>
            THEN Finish("failed", "AssertionError") /\ UNCHANGED locals
       ELSE /\ GoOn("rows")
            /\ locals' = [locals EXCEPT !.market_actor_name = Strip(card.title),
                                        !.program_widget_name = Strip(card.widgets[1].name)]
    /\ UNCHANGED <<page, searches, test>>
    /\ UNCHANGED helper_vars

\* The four rows, in the order of the calls
ReadProgramCounters ==
    /\ test = ProgramTest /\ pc = "rows"
    /\ LET r == [k \in 1..4 |-> assert_row_tooltip_and_value(page.card, k)]
           raised == { k \in 1..4 : r[k].kind = "raise" }
       IN  IF raised # {}
           THEN /\ Finish("failed", r[CHOOSE k \in raised : \A l \in raised : k <= l].exc)
                /\ UNCHANGED locals
           ELSE /\ GoOn("recent_sales")
                /\ locals' = [locals EXCEPT !.program_widget_rfe_counter = r[1].val,
                                            !.program_widget_incomplete_counter = r[2].val,
                                            !.program_widget_expired_counter = r[3].val,
                                            !.program_widget_last_export_date = r[4].val]
    /\ UNCHANGED <<page, searches, test>>
    /\ UNCHANGED helper_vars

\* The click on the Recent Sales link of the side panel
OpenRecentSales ==
    /\ test = ProgramTest /\ pc = "recent_sales"
    /\ IF ~page.card.nav_link THEN Finish("failed", "TimeoutError") /\ UNCHANGED page
       ELSE /\ GoOn("select")
            /\ \E options \in SalesOptions :
                  page' = [page EXCEPT !.url = << Head(page.url) >> \o SalesdataPath,
                                       !.sales = SalesForm(options)]
    /\ UNCHANGED <<locals, searches, test>>
    /\ UNCHANGED helper_vars

\* select_option(label=...) on a dropdown: the option is the checked one from
\* then on, and the call times out when the dropdown has no such option
CanSelect(field, label) == label \in page.sales.options[field]

\* Market Actor, Status 'Ready' and Assigned Program, each selected and read back
SelectFilters ==
    /\ test = ProgramTest /\ pc = "select"
    /\ IF /\ CanSelect("market_actor", locals.market_actor_name)
          /\ CanSelect("status", << StatusLabel(1) >>)
          /\ CanSelect("program", locals.program_widget_name)
       THEN /\ GoOn("search")
            /\ page' = [page EXCEPT !.sales.market_actor = locals.market_actor_name,
                                    !.sales.status = << StatusLabel(1) >>,
                                    !.sales.program = locals.program_widget_name]
       ELSE /\ Finish("failed", "TimeoutError")
            /\ page' = IF ~CanSelect("market_actor", locals.market_actor_name) THEN page
                       ELSE IF ~CanSelect("status", << StatusLabel(1) >>)
                       THEN [page EXCEPT !.sales.market_actor = locals.market_actor_name]
                       ELSE [page EXCEPT !.sales.market_actor = locals.market_actor_name,
                                         !.sales.status = << StatusLabel(1) >>]
    /\ UNCHANGED <<locals, searches, test>>
    /\ UNCHANGED helper_vars

\* The counter the k-th search is compared with
ProgramCounter(k) ==
    << locals.program_widget_rfe_counter, locals.program_widget_incomplete_counter,
       locals.program_widget_expired_counter >>[k]

\* The click on Search, Total Record Count, and the comparison with the
\* counter. The page that answers shows the form as it was submitted.
SearchAndCompare ==
    /\ test = ProgramTest /\ pc = "search"
    /\ \E answer \in ProgramAnswers :
          LET k == Len(searches) + 1
              r == answer.result
              counter == int(ProgramCounter(k))
          IN
          /\ page' = [page EXCEPT !.sales.paragraphs = answer.paragraphs]
          /\ searches' = Append(searches,
                 [value |-> [market_actor |-> page.sales.market_actor,
                             status |-> page.sales.status,
                             program |-> page.sales.program],
                  result |-> r])
          /\ IF r.kind = "raise" THEN Finish("failed", r.exc)
             ELSE IF counter.kind = "raise" THEN Finish("failed", counter.exc)
             ELSE IF r.val[1] # counter.val[1] THEN Finish("failed", "AssertionError")
             ELSE IF k = 3 THEN Finish("passed", "")
             ELSE GoOn("status")
    /\ UNCHANGED <<locals, test>>
    /\ UNCHANGED helper_vars

\* The Status of the next search: 'Incomplete Requirements', then 'Expired'
SelectNextStatus ==
    /\ test = ProgramTest /\ pc = "status"
    /\ LET label == << StatusLabel(Len(searches) + 1) >> IN
       IF CanSelect("status", label)
       THEN GoOn("search") /\ page' = [page EXCEPT !.sales.status = label]
       ELSE Finish("failed", "TimeoutError") /\ UNCHANGED page
    /\ UNCHANGED <<locals, searches, test>>
    /\ UNCHANGED helper_vars

ProgramNext ==
    \/ GotoDashboard
    \/ ReadProgramWidget
    \/ ReadProgramCounters
    \/ OpenRecentSales
    \/ SelectFilters
    \/ SearchAndCompare
    \/ SelectNextStatus

SpecProgram == ProgramInit /\ [][ProgramNext]_vars

---------------------------------------------------------------------------
(* Claim about test_dashboard_program_widget_features.                     *)

\* The value the first program widget of the card shows in its k-th row
FirstWidgetValue(k) == Strip(page.card.widgets[1].rows[k].value)

---------------------------------------------------------------------------
(* test_dashboard_market_actor_check                                       *)

stable_rounds_to_stop == 2
max_rounds == 10

SecondActorName == << "Bolt" >>

\* The texts of the h2.card-title elements and of the <option> elements
ActorTexts == { ActorName, Padded(ActorName), SecondActorName, << " " >> }

\* The card titles the dashboard shows when it opens, in document order
TitleLists == UNION { [1..k -> ActorTexts] : k \in 0..2 }

\* The card titles a scroll adds to them
LazyTitleLists == { << >>, << SecondActorName >> }

OptionLists == UNION { [1..k -> ActorTexts \cup { All }] : k \in 0..3 }

NoOptions == << >>

NoMarketActorLocals == [dashboard_ma_names |-> {}, stable_rounds |-> 0, rounds |-> 0]

\* [t.strip() for t in texts if t and t.strip()], as a set
NonEmptyStripped(texts) == { Strip(texts[k]) : k \in DOMAIN texts } \ { << >> }

\* The same comparison, satisfied by options the dashboard does not show
NamesIncluded(dashboard_ma_names, active_market_actor_names) ==
    dashboard_ma_names \subseteq active_market_actor_names

\* assert dashboard_ma_names == set(active_market_actor_names)
NamesEqual(dashboard_ma_names, active_market_actor_names) ==
    dashboard_ma_names = active_market_actor_names

\* The titles of the cards loaded so far: the scroll brings the rest
CardTitlesInView == IF page.scrolled THEN page.titles \o page.lazy ELSE page.titles

MarketActorInit ==
    /\ environ \in WidgetEnvirons /\ call = NoCall /\ ret = Pending
    /\ test = MarketActorTest
    /\ pc = "goto" /\ outcome = "running" /\ error = ""
    /\ locals = NoMarketActorLocals
    /\ \E path \in { DashboardPath, LoginPath }, titles \in TitleLists, lazy \in LazyTitleLists :
          page = [url |-> << >>, path |-> path, titles |-> titles, lazy |-> lazy,
                  scrolled |-> FALSE, options |-> NoOptions]
    /\ searches = << >>

\* ma_card_name_locator.first.wait_for(state="visible")
WaitForFirstCard ==
    /\ test = MarketActorTest /\ pc = "card"
    /\ IF CardTitlesInView = << >> THEN Finish("failed", "TimeoutError") ELSE GoOn("round")
    /\ UNCHANGED <<locals, page, searches, test>>
    /\ UNCHANGED helper_vars

\* The head of a round of the loop: the names of the cards in view are added,
\* the rounds without a new name are counted, and the loop is left, and with it
\* the function, after stable_rounds_to_stop of them
CollectNames ==
    /\ test = MarketActorTest /\ pc = "round"
    /\ locals.rounds < max_rounds
    /\ LET dashboard_market_actor_names == NonEmptyStripped(CardTitlesInView)
           before == Cardinality(locals.dashboard_ma_names)
           names == locals.dashboard_ma_names \cup dashboard_market_actor_names
           after == Cardinality(names)
           stable_rounds == IF before = after THEN locals.stable_rounds + 1 ELSE 0
       IN  /\ locals' = [dashboard_ma_names |-> names, stable_rounds |-> stable_rounds,
                         rounds |-> locals.rounds + 1]
           /\ IF stable_rounds >= stable_rounds_to_stop THEN Finish("passed", "")
              ELSE GoOn("scroll")
    /\ UNCHANGED <<page, searches, test>>
    /\ UNCHANGED helper_vars

\* The rest of the round, up to the check of page.url: the scroll, which brings
\* the cards not yet loaded, and the click on the Recent Sales link
ScrollAndOpenRecentSales ==
    /\ test = MarketActorTest /\ pc = "scroll"
    /\ \E path \in { SalesdataPath, LoginPath }, options \in OptionLists :
          /\ page' = [page EXCEPT !.scrolled = TRUE,
                                  !.url = << Head(page.url) >> \o path,
                                  !.path = path, !.options = options]
          /\ IF endswith(<< Head(page.url) >> \o path, SalesdataPath) THEN GoOn("compare")
             ELSE Finish("failed", "Exception")
    /\ UNCHANGED <<locals, searches, test>>
    /\ UNCHANGED helper_vars

\* The end of the round: the options of the Market Actor dropdown, the
\* comparison, and the return
CompareMarketActorNames ==
    /\ test = MarketActorTest /\ pc = "compare"
    /\ LET active_market_actor_names == NonEmptyStripped(page.options) \ { All } IN
       /\ searches' = Append(searches, [value |-> locals.dashboard_ma_names,
                                        result |-> active_market_actor_names])
       /\ IF NamesEqual(locals.dashboard_ma_names, active_market_actor_names)
          THEN Finish("passed", "")
          ELSE Finish("failed", "AssertionError")
    /\ UNCHANGED <<locals, page, test>>
    /\ UNCHANGED helper_vars

MarketActorNext ==
    \/ GotoDashboard
    \/ WaitForFirstCard
    \/ CollectNames
    \/ ScrollAndOpenRecentSales
    \/ CompareMarketActorNames

SpecMarketActor == MarketActorInit /\ [][MarketActorNext]_vars

---------------------------------------------------------------------------
(* Claims about test_dashboard_market_actor_check.                         *)

\* C12: test_dashboard_market_actor_check passes only if the comparison was
\* made and the set of the non-empty trimmed card titles collected on the
\* dashboard equals the set of the non-empty trimmed options of the Market
\* Actor dropdown of Recent Sales other than 'All', whatever the order and the
\* repetitions.
C12_TitlesEqualOptions ==
    Passed({ MarketActorTest }) =>
        /\ Len(searches) = 1
        /\ pc = "done" /\ endswith(page.url, SalesdataPath)
        /\ \A name \in ActorTexts \cup { All } :
              name # << " " >> =>
                 ((\E k \in DOMAIN page.titles : IsTrimOf(name, page.titles[k]))
                    <=> /\ name # All
                        /\ \E k \in DOMAIN page.options : IsTrimOf(name, page.options[k]))

\* A passing run in which the dashboard shows one name twice, once with white
\* space around it, and the dropdown has 'All', a blank option and the name.
C12_Witness ==
    /\ Passed({ MarketActorTest })
    /\ page.titles = << Padded(ActorName), ActorName >>
    /\ page.options = << All, << " " >>, ActorName >>

\* C16 as stated: the names are accumulated over the rounds, the collection
\* stops only after stable_rounds_to_stop rounds in a row without a new name or
\* after max_rounds rounds, and the comparison is made only then, with the
\* names of all the rounds.
C16_ComparedAfterCollectionStopped ==
    (test = MarketActorTest /\ Len(searches) = 1) =>
        /\ locals.stable_rounds >= stable_rounds_to_stop \/ locals.rounds = max_rounds
        /\ searches[1].value = NonEmptyStripped(page.titles \o page.lazy)

---------------------------------------------------------------------------
(* test_dashboard_program_widgets_match_market_actor                       *)

Placeholder == << "---------" >>
Unassigned == << "Unassigned" >>

\* The names of the program widgets of the first card, in document order
WidgetNameLists == UNION { [1..k -> { ProgramName, SecondProgramName }] : k \in 0..2 }

\* The texts of the options of the Assigned Program dropdown
ProgramOptionLists ==
    UNION { [1..k -> { Placeholder, Unassigned, ProgramName, SecondProgramName }] : k \in 0..3 }

\* The dashboard and the Recent Sales form the test meets: the title of the
\* first card, the names of its program widgets, the side panel link and where
\* it leads, the options of Market Actor, the checked options of Status and
\* Invoice Date and whether each offers 'All', the options of Assigned Program
MatchSite(title, widgets, nav, market_actors, checked, offers_all, programs) ==
    [title |-> title, widgets |-> widgets, nav_link |-> nav[1], sales_path |-> nav[2],
     market_actors |-> market_actors, status |-> checked[1], invoice_date |-> checked[2],
     offers_all |-> offers_all, programs |-> programs]

GoodNav == << TRUE, SalesdataPath >>

MatchSites ==
    { MatchSite(<< ActorName >>, widgets, GoodNav, { ActorName }, checked, TRUE, programs) :
        widgets \in WidgetNameLists, checked \in { << All, All >> },
        programs \in ProgramOptionLists }
    \cup { MatchSite(<< ActorName >>, << ProgramName >>, GoodNav, { ActorName }, checked, offers_all,
                     << Placeholder, ProgramName >>) :
             checked \in { << << "Ready" >>, All >>, << All, << "Last 30 Days" >> >> },
             offers_all \in BOOLEAN }
    \cup { MatchSite(<< >>, << >>, GoodNav, { ActorName }, << All, All >>, TRUE, << >>),
           MatchSite(<< ActorName >>, << >>, << FALSE, SalesdataPath >>, { ActorName },
                     << All, All >>, TRUE, << >>),
           MatchSite(<< ActorName >>, << >>, << TRUE, LoginPath >>, { ActorName },
                     << All, All >>, TRUE, << >>),
           MatchSite(<< ActorName >>, << >>, GoodNav, { SecondActorName }, << All, All >>, TRUE,
                     << >>) }

\* What a search shows once the wait is over: record links, the empty state
\* 'Total Record Count 0', or neither
Renderings == { "records", "empty", "neither" }

NoMatchLocals ==
    [market_actor_name |-> << >>, first_ma_card_program_names |-> << >>,
     program_option_labels |-> << >>, programs_with_records_not_in_widgets |-> << >>,
     widget_programs_with_no_records |-> << >>, i |-> 0]

\* [t for t in labels if t not in ("---------", "Unassigned")]
RECURSIVE SelectableLabels(_)
SelectableLabels(labels) ==
    IF labels = << >> THEN << >>
    ELSE (IF Head(labels) \in { Placeholder, Unassigned } THEN << >> ELSE << Head(labels) >>)
         \o SelectableLabels(Tail(labels))

\* The same check, which no program offends
NeverOffends(has_sales_records, program_label, first_ma_card_program_names) == FALSE

\* if _has_sales_records() and program_label not in first_ma_card_program_names
HasRecordsButNoWidget(has_sales_records, program_label, first_ma_card_program_names) ==
    has_sales_records /\ program_label \notin Range(first_ma_card_program_names)

ProgramMatchInit ==
    /\ environ \in { NoEnv, [TARGET_URL |-> << StagingHost >>] } /\ call = NoCall /\ ret = Pending
    /\ test = ProgramMatchTest
    /\ pc = "goto" /\ outcome = "running" /\ error = ""
    /\ locals = NoMatchLocals
    /\ \E path \in { DashboardPath, LoginPath }, site \in MatchSites :
          page = [url |-> << >>, path |-> path, site |-> site]
    /\ searches = << >>

\* The name of the first card and the names of its program widgets
ReadWidgetNames ==
    /\ test = ProgramMatchTest /\ pc = "card"
    /\ IF page.site.title = << >> THEN Finish("failed", "TimeoutError") /\ UNCHANGED locals
       ELSE /\ GoOn("recent_sales")
            /\ locals' = [locals EXCEPT !.market_actor_name = page.site.title[1],
                                        !.first_ma_card_program_names = page.site.widgets]
    /\ UNCHANGED <<page, searches, test>>
    /\ UNCHANGED helper_vars

\* The click on the Recent Sales link and the check of page.url
OpenRecentSalesFromCard ==
    /\ test = ProgramMatchTest /\ pc = "recent_sales"
    /\ IF ~page.site.nav_link THEN Finish("failed", "TimeoutError") /\ UNCHANGED page
       ELSE LET at == << Head(page.url) >> \o page.site.sales_path IN
            /\ page' = [page EXCEPT !.url = at, !.path = page.site.sales_path]
            /\ IF endswith(at, SalesdataPath) THEN GoOn("filters")
               ELSE Finish("failed", "Exception")
    /\ UNCHANGED <<locals, searches, test>>
    /\ UNCHANGED helper_vars

\* One of the two dropdowns that are to show 'All': it is read, set to 'All'
\* when it shows something else, and read again
ShowsAllAfterReset(checked) == checked = All \/ page.site.offers_all

\* Market Actor is selected, Status and Invoice Date are 'All', and the labels
\* of the Assigned Program options are collected
SetFiltersAndCollectPrograms ==
    /\ test = ProgramMatchTest /\ pc = "filters"
    /\ IF \/ locals.market_actor_name \notin page.site.market_actors
          \/ ~ShowsAllAfterReset(page.site.status)
          \/ ~ShowsAllAfterReset(page.site.invoice_date)
       THEN /\ Finish("failed", "TimeoutError")
            /\ page' = IF /\ locals.market_actor_name \in page.site.market_actors
                          /\ ShowsAllAfterReset(page.site.status)
                       THEN [page EXCEPT !.site.status = All]
                       ELSE page
            /\ UNCHANGED locals
       ELSE /\ GoOn("check_a")
            /\ page' = [page EXCEPT !.site.status = All, !.site.invoice_date = All]
            /\ locals' = [locals EXCEPT
                              !.program_option_labels = SelectableLabels(page.site.programs),
                              !.i = 1]
    /\ UNCHANGED <<searches, test>>
    /\ UNCHANGED helper_vars

\* One iteration of loop A: a program is selected and searched, and noted when
\* it has records but no widget
SearchProgramOption ==
    /\ test = ProgramMatchTest /\ pc = "check_a"
    /\ locals.i <= Len(locals.program_option_labels)
    /\ \E rendering \in Renderings :
          LET program_label == locals.program_option_labels[locals.i] IN
          /\ searches' = Append(searches, [value |-> program_label, result |-> rendering])
          /\ IF rendering = "neither" THEN Finish("failed", "TimeoutError") /\ UNCHANGED locals
             ELSE /\ GoOn("check_a")
                  /\ locals' = [locals EXCEPT
                         !.i = locals.i + 1,
                         !.programs_with_records_not_in_widgets =
                             IF HasRecordsButNoWidget(rendering = "records", program_label,
                                                      locals.first_ma_card_program_names)
                             THEN Append(@, program_label) ELSE @]
    /\ UNCHANGED <<page, test>>
    /\ UNCHANGED helper_vars

\* if programs_with_records_not_in_widgets: raise Exception
EndOfCheckA ==
    /\ test = ProgramMatchTest /\ pc = "check_a"
    /\ locals.i > Len(locals.program_option_labels)
    /\ IF locals.programs_with_records_not_in_widgets # << >>
       THEN Finish("failed", "Exception") /\ UNCHANGED locals
       ELSE GoOn("check_b") /\ locals' = [locals EXCEPT !.i = 1]
    /\ UNCHANGED <<page, searches, test>>
    /\ UNCHANGED helper_vars

\* One iteration of loop B: a widget's program is selected and searched, and
\* noted when it has no record
SearchWidgetProgram ==
    /\ test = ProgramMatchTest /\ pc = "check_b"
    /\ locals.i <= Len(locals.first_ma_card_program_names)
    /\ LET widget_program == locals.first_ma_card_program_names[locals.i] IN
       IF widget_program \notin Range(page.site.programs)
       THEN Finish("failed", "TimeoutError") /\ UNCHANGED <<locals, searches>>
       ELSE \E rendering \in Renderings :
              /\ searches' = Append(searches, [value |-> widget_program, result |-> rendering])
              /\ IF rendering = "neither"
                 THEN Finish("failed", "TimeoutError") /\ UNCHANGED locals
                 ELSE /\ GoOn("check_b")
                      /\ locals' = [locals EXCEPT
                             !.i = locals.i + 1,
                             !.widget_programs_with_no_records =
                                 IF rendering # "records" THEN Append(@, widget_program) ELSE @]
    /\ UNCHANGED <<page, test>>
    /\ UNCHANGED helper_vars

\* if widget_programs_with_no_records: raise Exception; the end of the test
EndOfCheckB ==
    /\ test = ProgramMatchTest /\ pc = "check_b"
    /\ locals.i > Len(locals.first_ma_card_program_names)
    /\ IF locals.widget_programs_with_no_records # << >>
       THEN Finish("failed", "Exception")
       ELSE Finish("passed", "")
    /\ UNCHANGED <<locals, page, searches, test>>
    /\ UNCHANGED helper_vars

ProgramMatchNext ==
    \/ GotoDashboard
    \/ ReadWidgetNames
    \/ OpenRecentSalesFromCard
    \/ SetFiltersAndCollectPrograms
    \/ SearchProgramOption
    \/ EndOfCheckA
    \/ SearchWidgetProgram
    \/ EndOfCheckB

SpecProgramMatch == ProgramMatchInit /\ [][ProgramMatchNext]_vars

---------------------------------------------------------------------------
(* Claim about test_dashboard_program_widgets_match_market_actor.          *)

\* The options of Assigned Program that check A searches, in order
OptionsSearched == SelectableLabels(page.site.programs)

\* C13: test_dashboard_program_widgets_match_market_actor passes only if (A)
\* every Assigned Program option other than '---------' and 'Unassigned' was
\* searched and, when its search showed at least one record, is the name of a
\* program widget of the first Market Actor card, and (B) every program widget
\* of that card was searched and showed at least one record; a search of check
\* B is made only after the searches of check A are over without an offender.
C13_ProgramsWithRecordsAreWidgets ==
    LET a == Len(OptionsSearched)
        b == Len(page.site.widgets)
    IN
    /\ Passed({ ProgramMatchTest }) =>
          /\ Len(searches) = a + b
          /\ \A k \in 1..a :
                /\ searches[k].value = OptionsSearched[k]
                /\ searches[k].value \notin { Placeholder, Unassigned }
                /\ searches[k].result = "records" =>
                      \E w \in DOMAIN page.site.widgets : page.site.widgets[w] = searches[k].value
          /\ \A k \in 1..b :
                /\ searches[a + k].value = page.site.widgets[k]
                /\ searches[a + k].result = "records"
          /\ \A k \in DOMAIN page.site.programs :
                page.site.programs[k] \notin { Placeholder, Unassigned } =>
                   \E j \in 1..a : searches[j].value = page.site.programs[k]
    /\ (test = ProgramMatchTest /\ Len(searches) > a) =>
          \A k \in 1..a :
              searches[k].result = "records" => searches[k].value \in Range(page.site.widgets)

\* A passing run over a card with two widgets and a dropdown with the
\* placeholder and both programs, the searches of check A finding records for
\* one program and none for the other.
C13_Witness ==
    /\ Passed({ ProgramMatchTest })
    /\ page.site.widgets = << ProgramName, SecondProgramName >>
    /\ page.site.programs = << Placeholder, SecondProgramName, ProgramName >>
    /\ searches[1].result = "empty"
    /\ searches[2].result = "records"

---------------------------------------------------------------------------
(* datetime.date: today - timedelta(days=n) and the comparison of dates    *)

\* body(value): the value is worked out once, whatever use the body makes of it
Given(value, body(_)) == CHOOSE result \in { body(v) : v \in { value } } : TRUE

DaysBeforeMonth == << 0, 31, 59, 90, 120, 151, 181, 212, 243, 273, 304, 334 >>

\* date.toordinal(): the number of the day, 1 being 0001-01-01
ToOrdinal(d) ==
    LET y == d[1] - 1 IN
    y * 365 + (y \div 4) - (y \div 100) + (y \div 400)
      + DaysBeforeMonth[d[2]] + (IF d[2] > 2 /\ IsLeap(d[1]) THEN 1 ELSE 0)
      + d[3]

\* date.fromordinal(n): the cycles of 400, 100, 4 and 1 years, then the month
FromOrdinal(ordinal) ==
    LET n0 == ordinal - 1
        n400 == n0 \div 146097
        r400 == n0 % 146097
        n100 == r400 \div 36524
        r100 == r400 % 36524
        n4 == r100 \div 1461
        r4 == r100 % 1461
        n1 == r4 \div 365
        n == r4 % 365
        year == n400 * 400 + 1 + n100 * 100 + n4 * 4 + n1
        leapyear == n1 = 3 /\ (n4 # 24 \/ n100 = 3)
        guess == (n + 50) \div 32
        before(m) == DaysBeforeMonth[m] + (IF m > 2 /\ leapyear THEN 1 ELSE 0)
        month == IF before(guess) > n THEN guess - 1 ELSE guess
    IN  IF n1 = 4 \/ n100 = 4 THEN << year - 1, 12, 31 >>
        ELSE << year, month, n - before(month) + 1 >>

\* date - timedelta(days=days)
MinusDays(d, days) == FromOrdinal(ToOrdinal(d) - days)

\* a <= b for two dates: year, then month, then day
DateLE(a, b) ==
    \/ a[1] < b[1]
    \/ a[1] = b[1] /\ a[2] < b[2]
    \/ a[1] = b[1] /\ a[2] = b[2] /\ a[3] <= b[3]

---------------------------------------------------------------------------
(* verify_first_date_within_days                                           *)

\* The same with the two ends of the window left out
StrictlyWithinWindow(inv_date, today, max_days) ==
    /\ MinusDays(today, max_days) # inv_date /\ DateLE(MinusDays(today, max_days), inv_date)
    /\ inv_date # today /\ DateLE(inv_date, today)

\* assert min_date <= inv_date <= today
WithinWindow(inv_date, today, max_days) ==
    /\ DateLE(MinusDays(today, max_days), inv_date)
    /\ DateLE(inv_date, today)

\* The cells of the Invoice Date column are given top down; the wait for the
\* first one times out when there is none
verify_first_date_within_days(cells, today, max_days) ==
    IF cells = << >> THEN Raise("TimeoutError")
    ELSE Given(Strip(cells[1]), LAMBDA raw_text :
         IF raw_text = << >> THEN Raise("AssertionError")
         ELSE Given(parse_invoice_date(raw_text), LAMBDA inv_date :
              IF inv_date.kind = "raise" THEN inv_date
              ELSE IF WithinWindow(inv_date.val, today, max_days) THEN Return(<< >>)
              ELSE Raise("AssertionError")))

Todays == { << 2025, 3, 1 >>, << 2024, 3, 30 >>, << 2025, 1, 1 >> }

MaxDays == { 30, 60, 90 }

\* How far from an end of the window a written date lies
Offsets == { -1, 0, 1 }

\* The first cell holds a date at or next to an end of the window, written in
\* one of the six formats
WindowCalls ==
    { [fn |-> "verify_first_date_within_days",
       a |-> << WriteDate(g[5], g[4][1], g[4][2], g[4][3], 1) >> \o g[6],
       pg |-> << >>, n |-> g[2], gen |-> g, today |-> g[1]] :
        g \in { << c[1], c[2], c[3], MinusDays(c[1], (IF c[3] THEN c[2] ELSE 0) - c[4]), c[5],
                    c[6] >> :
                  c \in Todays \X MaxDays \X BOOLEAN \X Offsets \X { 1, 2, 5 }
                          \X { << >>, << << "x" >> >> } } }

\* No cell, an empty one, one without a date, and one that is padded
OtherWindowCalls ==
    { [fn |-> "verify_first_date_within_days", a |-> cells, pg |-> << >>, n |-> max_days,
       gen |-> << >>, today |-> << 2025, 3, 1 >>] :
        cells \in { << >>, << << >> >>, << << " " >> >>, << << "x" >> >>,
                    << << >>, << "2","0","2","5","-","0","3","-","0","1" >> >>,
                    << << " ","2","0","2","5","-","0","3","-","0","1","\n" >> >>,
                    << << "0","2","/","3","0","/","2","0","2","5" >> >> },
        max_days \in MaxDays }

VerifyInit ==
    /\ environ = Idle /\ call \in WindowCalls \cup OtherWindowCalls /\ ret = Pending
    /\ NoTest

VerifyFirstDateWithinDays ==
    /\ call.fn = "verify_first_date_within_days"
    /\ ret = Pending
    /\ ret' = verify_first_date_within_days(call.a, call.today, call.n)
    /\ UNCHANGED <<environ, call>>
    /\ UNCHANGED test_vars

SpecVerify == VerifyInit /\ [][VerifyFirstDateWithinDays]_vars

---------------------------------------------------------------------------
(* Claim about verify_first_date_within_days.                              *)

\* The day after d
NextDay(d) ==
    IF d[3] < DaysInMonth(d[1], d[2]) THEN << d[1], d[2], d[3] + 1 >>
    ELSE IF d[2] < 12 THEN << d[1], d[2] + 1, 1 >>
    ELSE << d[1] + 1, 1, 1 >>

\* today is d or one of the limit days after d
RECURSIVE ReachesWithin(_, _, _)
ReachesWithin(d, today, limit) ==
    \/ d = today
    \/ limit > 0 /\ ReachesWithin(NextDay(d), today, limit - 1)

IsVerifyCall == call.fn = "verify_first_date_within_days" /\ ret # Pending

---------------------------------------------------------------------------
(* test_rsp_invoice_date_field                                             *)

InvoiceDateTest == "test_rsp_invoice_date_field"

RangeTest == "test_rsp_invoice_date_specific_range"

DateTests == { InvoiceDateTest, RangeTest }

\* date.today() during the test
Today == << 2025, 3, 1 >>

\* The three calls of _exercise_invoice_date_option, in order
ExercisedOptions ==
    << [label |-> << "Last 90 Days" >>, max_days |-> 90],
       [label |-> << "Last 60 Days" >>, max_days |-> 60],
       [label |-> << "Last 30 Days" >>, max_days |-> 30] >>

OptionLabels == { ExercisedOptions[k].label : k \in DOMAIN ExercisedOptions }

\* The same with the window of the first option for all three
MaxDaysOfFirstOption(k) == ExercisedOptions[1].max_days

\* The max_days of the k-th call
MaxDaysOf(k) == ExercisedOptions[k].max_days

\* The same when a count of 0 does not end the test
NeverSkips(total_record_count) == FALSE

\* if total_record_count == 0: pytest.skip(...)
SkipsOption(total_record_count) == total_record_count = 0

\* What the first cell of the Invoice Date column may show: today, the day
\* before each window, and no date
FirstCellTexts ==
    { WriteDate(1, d[1], d[2], d[3], 1) : d \in { MinusDays(Today, n) : n \in { 0, 31, 61 } } }
    \cup { WriteDate(5, d[1], d[2], d[3], 1) : d \in { MinusDays(Today, n) : n \in { 91 } } }
    \cup { << "x" >> }

\* The table a search or a click on the header brings: the cells of the
\* Invoice Date column, of which the first is read, and the number of links
\* that find_invoice_date_header finds
DateTables ==
    { [cells |-> cells, header_links |-> n] :
        cells \in { << text >> : text \in FirstCellTexts } \cup { << >> }, n \in { 0, 1 } }

\* The answers to a click on Search: the table, and what
\* get_total_record_count makes of the page
DateSearchAnswers ==
    { [table |-> table, total |-> get_total_record_count(paragraphs)] :
        table \in DateTables,
        paragraphs \in { << TotalRecordCountLabel \o << " " >> \o DigitsOf(n) >> : n \in 0..2 }
                         \cup { << TotalRecordCountLabel >> } }

\* The form of /salesdata/: how many elements the selectors of the three
\* dropdowns and of the Search button find, the texts of the checked options,
\* the labels the Invoice Date dropdown offers
DateForm(found, sel, options) ==
    [selects |-> found[1], buttons |-> found[2],
     market_actor |-> sel[1], status |-> sel[2], invoice_date |-> sel[3],
     options |-> options]

DateForms ==
    { DateForm(<< << 1, 1, 1 >>, 1 >>, sel, OptionLabels) :
        sel \in { AllSelected, << Padded(All), All, All >>, << << "Ready" >>, All, All >>,
                  << All, << "Ready" >>, All >>, << All, All, << "Last 30 Days" >> >> } }
    \cup { DateForm(found, AllSelected, OptionLabels) :
             found \in { << << 0, 1, 1 >>, 1 >>, << << 1, 2, 1 >>, 1 >>, << << 1, 1, 0 >>, 1 >>,
                         << << 1, 1, 1 >>, 0 >> } }
    \cup { DateForm(<< << 1, 1, 1 >>, 1 >>, AllSelected, OptionLabels \ { label }) :
             label \in OptionLabels }

NoTable == [cells |-> << >>, header_links |-> 0]

NoDateLocals == [total_record_count |-> 0, i |-> 1]

InvoiceDateInit ==
    /\ environ \in FilterEnvirons /\ call = NoCall /\ ret = Pending
    /\ test = InvoiceDateTest
    /\ pc = "goto" /\ outcome = "running" /\ error = ""
    /\ locals = NoDateLocals
    /\ \E path \in { SalesdataPath, LoginPath }, form \in DateForms :
          page = [path |-> path, form |-> form, table |-> NoTable, today |-> Today]
    /\ searches = << >>

\* page.goto(url("/salesdata/")) and page.wait_for_url("**/salesdata/**")
GotoSalesdata ==
    /\ test \in DateTests /\ pc = "goto"
    /\ LET u == url(environ, << "/","s","a","l","e","s","d","a","t","a","/" >>) IN
       IF u.kind = "raise" THEN Finish("failed", u.exc)
       ELSE IF page.path # SalesdataPath THEN Finish("failed", "TimeoutError")
       ELSE GoOn("default_filters")
    /\ UNCHANGED <<locals, page, searches, test>>
    /\ UNCHANGED helper_vars

\* One Market Actor dropdown and one Status dropdown, each showing 'All'
MarketActorAndStatusAreAll(form) ==
    /\ form.selects[1] = 1 /\ Strip(form.market_actor) = All
    /\ form.selects[2] = 1 /\ Strip(form.status) = All

\* The asserts on the three dropdowns, the search with Invoice Date 'All', and
\* the assert that it finds records
VerifyDefaultsAndSearchAll ==
    /\ test = InvoiceDateTest /\ pc = "default_filters"
    /\ IF \/ ~MarketActorAndStatusAreAll(page.form)
          \/ page.form.selects[3] # 1 \/ Strip(page.form.invoice_date) # All
          \/ page.form.buttons # 1
       THEN Finish("failed", "AssertionError") /\ UNCHANGED <<locals, page, searches>>
       ELSE \E answer \in DateSearchAnswers :
              /\ page' = [page EXCEPT !.table = answer.table]
              /\ searches' = Append(searches, [value |-> All, result |-> answer.total])
              /\ IF answer.total.kind = "raise"
                 THEN Finish("failed", answer.total.exc) /\ UNCHANGED locals
                 ELSE IF answer.total.val[1] = 0
                 THEN Finish("failed", "AssertionError") /\ UNCHANGED locals
                 ELSE /\ GoOn("option")
                      /\ locals' = [locals EXCEPT !.total_record_count = answer.total.val[1]]
    /\ UNCHANGED test
    /\ UNCHANGED helper_vars

\* _exercise_invoice_date_option down to the count: the option is selected,
\* Search is clicked, and the count decides between the skip, the single
\* verification and the two sorts
SelectOptionAndSearch ==
    /\ test = InvoiceDateTest /\ pc = "option"
    /\ LET label == ExercisedOptions[locals.i].label IN
       IF label \notin page.form.options
       THEN Finish("failed", "TimeoutError") /\ UNCHANGED <<locals, page, searches>>
       ELSE \E answer \in DateSearchAnswers :
              /\ page' = [page EXCEPT !.form.invoice_date = label, !.table = answer.table]
              /\ searches' = Append(searches, [value |-> label, result |-> answer.total])
              /\ IF answer.total.kind = "raise"
                 THEN Finish("failed", answer.total.exc) /\ UNCHANGED locals
                 ELSE /\ locals' = [locals EXCEPT !.total_record_count = answer.total.val[1]]
                      /\ IF SkipsOption(answer.total.val[1]) THEN Finish("skipped", "")
                         ELSE IF answer.total.val[1] = 1 THEN GoOn("verify_only")
                         ELSE GoOn("click_1")
    /\ UNCHANGED test
    /\ UNCHANGED helper_vars

\* find_invoice_date_header and the click on the link it returns
ClickInvoiceDateHeader ==
    /\ test = InvoiceDateTest /\ pc \in { "click_1", "click_2" }
    /\ IF page.table.header_links # 1
       THEN Finish("failed", "AssertionError") /\ UNCHANGED <<page, searches>>
       ELSE \E table \in DateTables :
              /\ page' = [page EXCEPT !.table = table]
              /\ searches' = Append(searches, [value |-> << "click" >>, result |-> pc])
              /\ GoOn(IF pc = "click_1" THEN "verify_1" ELSE "verify_2")
    /\ UNCHANGED <<locals, test>>
    /\ UNCHANGED helper_vars

\* A call of verify_first_date_within_days, and what follows it: the second
\* click, the next option, or the end of the test
VerifyFirstInvoiceDate ==
    /\ test = InvoiceDateTest /\ pc \in { "verify_only", "verify_1", "verify_2" }
    /\ \E r \in { verify_first_date_within_days(page.table.cells, page.today,
                                                MaxDaysOf(locals.i)) } :
           /\ searches' = Append(searches, [value |-> << "verify" >>,
                                            result |-> [cells |-> page.table.cells, outcome |-> r]])
           /\ IF r.kind = "raise" THEN Finish("failed", r.exc) /\ UNCHANGED locals
              ELSE IF pc = "verify_1" THEN GoOn("click_2") /\ UNCHANGED locals
              ELSE IF locals.i < Len(ExercisedOptions)
              THEN GoOn("option") /\ locals' = [locals EXCEPT !.i = locals.i + 1]
              ELSE Finish("passed", "") /\ UNCHANGED locals
    /\ UNCHANGED <<page, test>>
    /\ UNCHANGED helper_vars

InvoiceDateNext ==
    \/ GotoSalesdata
    \/ VerifyDefaultsAndSearchAll
    \/ SelectOptionAndSearch
    \/ ClickInvoiceDateHeader
    \/ VerifyFirstInvoiceDate

SpecInvoiceDate == InvoiceDateInit /\ [][InvoiceDateNext]_vars

---------------------------------------------------------------------------
(* Claims about test_rsp_invoice_date_field.                               *)

Last90Days == << "Last 90 Days" >>
Last60Days == << "Last 60 Days" >>
Last30Days == << "Last 30 Days" >>

\* The places in the history of the searches for the three options
OptionSearches == { k \in DOMAIN searches : searches[k].value \in { Last90Days, Last60Days, Last30Days } }

\* The place of the search for label, 0 when it was not searched
SearchOf(label) ==
    IF \E k \in DOMAIN searches : searches[k].value = label
    THEN CHOOSE k \in DOMAIN searches : searches[k].value = label
    ELSE 0

\* C17: in test_rsp_invoice_date_field the options are searched in the order
\* 'Last 90 Days', 'Last 60 Days', 'Last 30 Days', each at most once, and when
\* the search for one of them returns Total Record Count 0 the test ends with
\* that search as skipped, not passed or failed: nothing is clicked, verified
\* or searched after it.
C17_SkippedAtFirstEmptyOption ==
    test = InvoiceDateTest =>
        /\ \A k \in OptionSearches :
              searches[k].result = Return(<< 0 >>) =>
                  /\ k = Len(searches)
                  /\ pc = "done" /\ outcome = "skipped" /\ error = ""
        /\ \A k, l \in OptionSearches : searches[k].value = searches[l].value => k = l
        /\ SearchOf(Last60Days) # 0 =>
              SearchOf(Last90Days) # 0 /\ SearchOf(Last90Days) < SearchOf(Last60Days)
        /\ SearchOf(Last30Days) # 0 =>
              SearchOf(Last60Days) # 0 /\ SearchOf(Last60Days) < SearchOf(Last30Days)

\* 'Last 90 Days' found two records and was verified after both clicks, then
\* 'Last 60 Days' found none: the test is skipped and 'Last 30 Days' was never
\* searched.
C17_Witness ==
    /\ test = InvoiceDateTest /\ outcome = "skipped"
    /\ SearchOf(Last90Days) # 0 /\ searches[SearchOf(Last90Days)].result = Return(<< 2 >>)
    /\ SearchOf(Last60Days) = Len(searches)
    /\ searches[Len(searches)].result = Return(<< 0 >>)
    /\ SearchOf(Last30Days) = 0

\* What happened between the search for label and the next search
StepsAfter(label) ==
    LET from == SearchOf(label)
        later == { k \in OptionSearches : k > from }
        to == IF later = {} THEN Len(searches)
              ELSE (CHOOSE k \in later : \A l \in later : k <= l) - 1
    IN  SubSeq(searches, from + 1, to)

IsClick(step) == step.value = << "click" >>

\* The step is a verification that read a first cell whose text is a date d
\* with Today - days <= d <= Today
IsVerifiedWithin(step, days) ==
    /\ step.value = << "verify" >>
    /\ step.result.cells # << >>
    /\ LET d == parse_invoice_date(step.result.cells[1]) IN
       d.kind = "return" /\ ReachesWithin(d.val, Today, days)

ExercisedWithin(label, days) ==
    /\ SearchOf(label) # 0
    /\ searches[SearchOf(label)].result.kind = "return"
    /\ LET count == searches[SearchOf(label)].result.val[1]
           steps == StepsAfter(label)
       IN  /\ count # 0
           /\ count = 1 => Len(steps) = 1 /\ IsVerifiedWithin(steps[1], days)
           /\ count >= 2 =>
                 /\ Len(steps) = 4
                 /\ IsClick(steps[1]) /\ IsVerifiedWithin(steps[2], days)
                 /\ IsClick(steps[3]) /\ IsVerifiedWithin(steps[4], days)

\* C18: test_rsp_invoice_date_field passes only if each of 'Last 90 Days',
\* 'Last 60 Days' and 'Last 30 Days' was searched with a count other than 0
\* and, with N the days of the option: for a count of 1 the header was not
\* clicked and the first-row date, read once, lies in [today - N, today]; for
\* a count of 2 or more the first-row date lies in that window after the first
\* click on the header and again after the second.
C18_FirstRowDatesWithinWindows ==
    Passed({ InvoiceDateTest }) =>
        /\ ExercisedWithin(Last90Days, 90)
        /\ ExercisedWithin(Last60Days, 60)
        /\ ExercisedWithin(Last30Days, 30)

\* A passing run in which 'Last 90 Days' found one record, dated 61 days ago,
\* and 'Last 30 Days' found two.
C18_Witness ==
    /\ Passed({ InvoiceDateTest })
    /\ searches[SearchOf(Last90Days)].result = Return(<< 1 >>)
    /\ StepsAfter(Last90Days)[1].result.cells = << << "2","0","2","4","-","1","2","-","3","0" >> >>
    /\ searches[SearchOf(Last30Days)].result = Return(<< 2 >>)

---------------------------------------------------------------------------
(* The sortable Invoice Date column and sort_invoice_date_desc             *)

\* The column is served in the order its sort parameter names: none, the
\* records as the search found them; sort=invoice_date, ascending;
\* sort=-invoice_date, descending. The link of the header names the order the
\* next click brings: ascending, and descending when the column is ascending.
Unsorted == << >>
Ascending == << "sort=", "invoice_date" >>
Descending == << "sort=", "-", "invoice_date" >>

SortOrders == { Unsorted, Ascending, Descending }

\* The place of record i among the records rs in the order sort: after the
\* records of an earlier place in that order, and after those of its own date
\* that stood before it
PlaceByDate(rs, i, sort) ==
    Cardinality({ j \in 1..Len(rs) :
        IF rs[j].date = rs[i].date THEN j <= i
        ELSE IF sort = Ascending THEN DateLE(rs[j].date, rs[i].date)
        ELSE DateLE(rs[i].date, rs[j].date) })

\* The records rs in the order sort, records of one date in the order they had
SortByDate(rs, sort) ==
    [p \in 1..Len(rs) |-> rs[CHOOSE i \in 1..Len(rs) : PlaceByDate(rs, i, sort) = p]]

\* The rows of the table, top down
RowsInOrder(records, sort) == IF sort = Unsorted THEN records ELSE SortByDate(records, sort)

\* The hrefs of the links in the header of the column
HeaderHrefs(table) ==
    IF ~table.sortable THEN << >>
    ELSE IF table.sort = Ascending THEN << << "?" >> \o Descending >>
    ELSE << << "?" >> \o Ascending >>

\* The elements of hrefs that contain part, in order
RECURSIVE Containing(_, _)
Containing(hrefs, part) ==
    IF hrefs = << >> THEN << >>
    ELSE (IF Contains(Head(hrefs), part) THEN << Head(hrefs) >> ELSE << >>)
         \o Containing(Tail(hrefs), part)

\* The link find_invoice_date_header returns, or its AssertionError
find_invoice_date_header(hrefs) ==
    LET first == Containing(hrefs, Ascending)
        header == IF Len(first) = 0 THEN Containing(hrefs, Descending) ELSE first
    IN  IF Len(header) # 1 THEN Raise("AssertionError") ELSE Return(header[1])

\* The table after a click on the link href
Clicked(table, href) ==
    LET sort == IF Contains(href, Descending) THEN Descending ELSE Ascending IN
    [table EXCEPT !.sort = sort, !.rows = RowsInOrder(table.records, sort)]

SortableTable(records, sort, sortable) ==
    [records |-> records, sort |-> sort, sortable |-> sortable, rows |-> RowsInOrder(records, sort)]

\* A record of the column: its date and the cells of its row that the
\* selector of the Invoice Date cell finds, each with its text
DatedRecord(d) == [date |-> d, cells |-> << WriteDate(1, d[1], d[2], d[3], 1) >>]

SortedDates == { MinusDays(Today, n) : n \in { 0, 1, 31 } }

SortCalls ==
    { [fn |-> "sort_invoice_date_desc", a |-> SortableTable(records, sort, sortable),
       pg |-> << >>, n |-> 0, gen |-> << >>] :
        records \in UNION { [1..k -> { DatedRecord(d) : d \in SortedDates }] : k \in 0..3 },
        sort \in SortOrders, sortable \in BOOLEAN }

SortInit ==
    /\ environ = Idle /\ call \in SortCalls /\ ret = Pending
    /\ test = "" /\ pc = "" /\ outcome = "" /\ error = ""
    /\ locals = [i |-> 0]
    /\ page = call.a
    /\ searches = << >>

\* One iteration of the loop of sort_invoice_date_desc: the header is found
\* and clicked; the function returns after the second
ClickToSort ==
    /\ call.fn = "sort_invoice_date_desc" /\ ret = Pending
    /\ locals.i < 2
    /\ \E header \in { find_invoice_date_header(HeaderHrefs(page)) } :
       IF header.kind = "raise" THEN ret' = header /\ UNCHANGED <<page, locals>>
       ELSE /\ page' = Clicked(page, header.val)
            /\ locals' = [locals EXCEPT !.i = locals.i + 1]
            /\ ret' = IF locals.i + 1 = 2 THEN Return(<< >>) ELSE Pending
    /\ UNCHANGED <<environ, call, test, pc, outcome, error, searches>>

SpecSort == SortInit /\ [][ClickToSort]_vars

---------------------------------------------------------------------------
(* Claim about sort_invoice_date_desc.                                     *)

\* The dates of the rows never increase down the table
IsSortedDescending(rows) ==
    \A i, j \in DOMAIN rows : i < j => DateLE(rows[j].date, rows[i].date)

\* C15: when sort_invoice_date_desc has returned from a call made with the
\* column unsorted or sorted ascending, the header was clicked exactly 2 times
\* and the rows of the Invoice Date column are in descending order.
C15_DescendingAfterTwoClicks ==
    (call.fn = "sort_invoice_date_desc" /\ ret.kind = "return"
       /\ call.a.sort \in { Unsorted, Ascending }) =>
          /\ locals.i = 2
          /\ IsSortedDescending(page.rows)

\* The same for a call made with the column unsorted.
DescendingFromUnsorted ==
    (call.fn = "sort_invoice_date_desc" /\ ret.kind = "return" /\ call.a.sort = Unsorted) =>
          /\ locals.i = 2
          /\ IsSortedDescending(page.rows)

---------------------------------------------------------------------------
(* test_rsp_invoice_date_specific_range                                    *)

\* for idx in range(1, 50)
ScanStop == 50

Yesterday == MinusDays(Today, 1)
Tomorrow == MinusDays(Today, -1)

\* date.isoformat()
isoformat(d) == WriteDate(1, d[1], d[2], d[3], 1)

\* A record whose row shows cells in place of its date
ShownAs(d, cells) == [date |-> d, cells |-> cells]

\* The records a search may find: dated today (in two formats), yesterday and
\* tomorrow, one whose cell holds no date, one whose cell is empty, and one
\* whose row has no Invoice Date cell
RangeRecords ==
    { DatedRecord(Today), DatedRecord(Yesterday), DatedRecord(Tomorrow),
      ShownAs(Today, << Padded(WriteDate(2, Today[1], Today[2], Today[3], 1)) >>),
      ShownAs(Yesterday, << << "x" >> >>),
      ShownAs(Yesterday, << << " " >> >>) }

\* ScanStop rows dated today and then one dated yesterday
LongTable ==
    SortableTable([k \in 1..(ScanStop + 1) |->
                      IF k <= ScanStop THEN DatedRecord(Today) ELSE DatedRecord(Yesterday)],
                  Unsorted, TRUE)

\* The tables the first search may bring
FirstSearchTables ==
    { SortableTable(records, sort, TRUE) :
        records \in UNION { [1..k -> RangeRecords] : k \in 0..3 }, sort \in { Unsorted, Ascending } }
    \cup { SortableTable(<< DatedRecord(Today), DatedRecord(Yesterday) >>, Unsorted, FALSE),
           SortableTable(<< DatedRecord(Today), ShownAs(Yesterday, << >>) >>, Unsorted, TRUE),
           SortableTable(<< ShownAs(Yesterday, << >>) >>, Unsorted, TRUE),
           LongTable }

\* The tables the second search may bring
SecondSearchTables ==
    { SortableTable(records, Unsorted, TRUE) :
        records \in UNION { [1..k -> { DatedRecord(Today), DatedRecord(Yesterday),
                                       DatedRecord(Tomorrow), ShownAs(Yesterday, << << "x" >> >>) }] :
                              k \in 0..2 } }
    \cup { SortableTable(<< DatedRecord(Today) >>, Unsorted, FALSE) }

\* The form of /salesdata/ for this test: how many elements the selectors of
\* the two dropdowns, the checkbox, the two date inputs and the Search button
\* find, the texts of the checked options, and the two dates entered
RangeForm(found, sel) ==
    [selects |-> << found[1], found[2] >>, checkboxes |-> found[3],
     date_inputs |-> << found[4], found[5] >>, buttons |-> found[6],
     market_actor |-> sel[1], status |-> sel[2],
     invoice_start_date |-> << >>, invoice_end_date |-> << >>]

RangeForms ==
    { RangeForm(<< 1, 1, 1, 1, 1, 1 >>, sel) :
        sel \in { << All, All >>, << Padded(All), All >>, << << "Ready" >>, All >>,
                  << All, << "Ready" >> >> } }
    \cup { RangeForm(found, << All, All >>) :
             found \in { << 0, 1, 1, 1, 1, 1 >>, << 1, 2, 1, 1, 1, 1 >>, << 1, 1, 0, 1, 1, 1 >>,
                         << 1, 1, 1, 0, 1, 1 >>, << 1, 1, 1, 1, 2, 1 >>, << 1, 1, 1, 1, 1, 0 >> } }

None == << >>

NoRangeLocals == [latest_date |-> None, different_date |-> None, idx |-> 0, caught |-> << >>]

NoRecords == SortableTable(<< >>, Unsorted, TRUE)

RangeInit ==
    /\ environ \in FilterEnvirons /\ call = NoCall /\ ret = Pending
    /\ test = RangeTest
    /\ pc = "goto" /\ outcome = "running" /\ error = ""
    /\ locals = NoRangeLocals
    /\ \E path \in { SalesdataPath, LoginPath }, form \in RangeForms :
          page = [path |-> path, form |-> form, table |-> NoRecords, today |-> Today]
    /\ searches = << >>

\* The asserts on the two dropdowns, the checkbox and the two date inputs,
\* today as Invoice End Date, and the first click on Search
EnterEndDateAndSearch ==
    /\ test = RangeTest /\ pc = "default_filters"
    /\ IF \/ ~MarketActorAndStatusAreAll(page.form)
          \/ page.form.checkboxes # 1
          \/ page.form.date_inputs # << 1, 1 >>
       THEN Finish("failed", "AssertionError") /\ UNCHANGED page
       ELSE IF page.form.buttons # 1
       THEN /\ Finish("failed", "AssertionError")
            /\ page' = [page EXCEPT !.form.invoice_end_date = isoformat(page.today)]
       ELSE \E table \in FirstSearchTables :
              /\ page' = [page EXCEPT !.form.invoice_end_date = isoformat(page.today),
                                      !.table = table]
              /\ GoOn("sort_1")
    /\ UNCHANGED <<locals, searches, test>>
    /\ UNCHANGED helper_vars

\* One of the two clicks of a call of sort_invoice_date_desc
ClickToSortInTest ==
    /\ test = RangeTest /\ pc \in { "sort_1", "sort_2", "sort_again_1", "sort_again_2" }
    /\ \E header \in { find_invoice_date_header(HeaderHrefs(page.table)) } :
       IF header.kind = "raise" THEN Finish("failed", header.exc) /\ UNCHANGED page
       ELSE /\ page' = [page EXCEPT !.table = Clicked(page.table, header.val)]
            /\ GoOn(CASE pc = "sort_1" -> "sort_2"
                      [] pc = "sort_2" -> "latest"
                      [] pc = "sort_again_1" -> "sort_again_2"
                      [] pc = "sort_again_2" -> "final")
    /\ UNCHANGED <<locals, searches, test>>
    /\ UNCHANGED helper_vars

\* _get_invoice_date_from_row(row_index) over the rows of the table: the skip
\* when there is no such row, the timeout when the row has no Invoice Date
\* cell, the AssertionError of an empty cell or of parse_invoice_date
get_invoice_date_from_row(rows, row_index) ==
    IF row_index + 1 > Len(rows) THEN Raise("Skipped")
    ELSE LET cells == rows[row_index + 1].cells IN
         IF cells = << >> THEN Raise("TimeoutError")
         ELSE Given(Strip(cells[1]), LAMBDA raw :
              IF raw = << >> THEN Raise("AssertionError") ELSE parse_invoice_date(raw))

\* The test ends on the exception r: skipped on pytest's, failed on any other
FinishOn(r) == IF r.exc = "Skipped" THEN Finish("skipped", "") ELSE Finish("failed", r.exc)

\* What a step read: the rows it saw and the date, or the exception, it got
Read(step, rows, r) == [value |-> << step >>, result |-> [rows |-> rows, date |-> r]]

\* latest_date is read from row 0 and compared with today
ReadLatestDate ==
    /\ test = RangeTest /\ pc = "latest"
    /\ \E r \in { get_invoice_date_from_row(page.table.rows, 0) } :
       /\ searches' = Append(searches, Read("latest", page.table.rows, r))
       /\ IF r.kind = "raise" THEN FinishOn(r) /\ UNCHANGED locals
          ELSE IF ~DateLE(r.val, page.today)
          THEN Finish("failed", "AssertionError") /\ UNCHANGED locals
          ELSE GoOn("scan") /\ locals' = [locals EXCEPT !.latest_date = r.val, !.idx = 1]
    /\ UNCHANGED <<page, test>>
    /\ UNCHANGED helper_vars

\* The same with except Exception: a timeout is caught as well
ExceptException(r) == r.kind = "raise"

\* except AssertionError
ExceptAssertionError(r) == r.kind = "raise" /\ r.exc = "AssertionError"

\* One iteration of the loop over the rows 1 to 49: the loop is left when the
\* rows are over or a row shows another date than row 0; a row whose date
\* cannot be read is passed over
ScanRow ==
    /\ test = RangeTest /\ pc = "scan"
    /\ IF locals.idx >= ScanStop \/ locals.idx + 1 > Len(page.table.rows)
       THEN GoOn("start") /\ UNCHANGED locals
       ELSE \E r \in { get_invoice_date_from_row(page.table.rows, locals.idx) } :
            IF ExceptAssertionError(r)
            THEN /\ GoOn("scan")
                 /\ locals' = [locals EXCEPT !.idx = locals.idx + 1,
                                             !.caught = Append(@, locals.idx)]
            ELSE IF r.kind = "raise" THEN FinishOn(r) /\ UNCHANGED locals
            ELSE IF r.val # locals.latest_date
            THEN GoOn("start") /\ locals' = [locals EXCEPT !.different_date = r.val]
            ELSE GoOn("scan") /\ locals' = [locals EXCEPT !.idx = locals.idx + 1]
    /\ UNCHANGED <<page, searches, test>>
    /\ UNCHANGED helper_vars

\* assert different_date is not None; it is entered as Invoice Start Date and
\* Search is clicked again
EnterStartDateAndSearch ==
    /\ test = RangeTest /\ pc = "start"
    /\ IF locals.different_date = None
       THEN Finish("failed", "AssertionError") /\ UNCHANGED page
       ELSE \E table \in SecondSearchTables :
              /\ page' = [page EXCEPT !.form.invoice_start_date = isoformat(locals.different_date),
                                      !.table = table]
              /\ GoOn("after_start")
    /\ UNCHANGED <<locals, searches, test>>
    /\ UNCHANGED helper_vars

\* The same with the comparison turned round
NotAfterStart(first_after_start, start_date) == DateLE(first_after_start, start_date)

\* assert first_after_start >= start_date
OnOrAfterStart(first_after_start, start_date) == DateLE(start_date, first_after_start)

\* Row 0 after the second search is read and compared with the start date
VerifyAfterStart ==
    /\ test = RangeTest /\ pc = "after_start"
    /\ \E r \in { get_invoice_date_from_row(page.table.rows, 0) } :
       /\ searches' = Append(searches, Read("after_start", page.table.rows, r))
       /\ IF r.kind = "raise" THEN FinishOn(r)
          ELSE IF ~OnOrAfterStart(r.val, locals.different_date)
          THEN Finish("failed", "AssertionError")
          ELSE GoOn("sort_again_1")
    /\ UNCHANGED <<locals, page, test>>
    /\ UNCHANGED helper_vars

\* Row 0 after the second sort is read and compared with today
VerifyAfterDesc ==
    /\ test = RangeTest /\ pc = "final"
    /\ \E r \in { get_invoice_date_from_row(page.table.rows, 0) } :
       /\ searches' = Append(searches, Read("final", page.table.rows, r))
       /\ IF r.kind = "raise" THEN FinishOn(r)
          ELSE IF ~DateLE(r.val, page.today)
          THEN Finish("failed", "AssertionError")
          ELSE Finish("passed", "")
    /\ UNCHANGED <<locals, page, test>>
    /\ UNCHANGED helper_vars

RangeNext ==
    \/ GotoSalesdata
    \/ EnterEndDateAndSearch
    \/ ClickToSortInTest
    \/ ReadLatestDate
    \/ ScanRow
    \/ EnterStartDateAndSearch
    \/ VerifyAfterStart
    \/ VerifyAfterDesc

SpecRange == RangeInit /\ [][RangeNext]_vars

---------------------------------------------------------------------------
(* Claims about test_rsp_invoice_date_specific_range.                      *)

\* The row with index k (0 for the first) shows a date
ShowsDate(rows, k) ==
    /\ k + 1 <= Len(rows)
    /\ rows[k + 1].cells # << >>
    /\ parse_invoice_date(rows[k + 1].cells[1]).kind = "return"

\* The date it shows
DateShown(rows, k) == parse_invoice_date(rows[k + 1].cells[1]).val

\* The rows among 1 to 49 that show a date other than that of row 0
RowsWithAnotherDate(rows) ==
    { k \in 1..49 : ShowsDate(rows, k) /\ DateShown(rows, k) # DateShown(rows, 0) }

Lowest(ks) == CHOOSE k \in ks : \A l \in ks : k <= l

\* The rows the step read, it being the n-th read of the test
RowsRead(n, step) ==
    IF Len(searches) >= n /\ searches[n].value = << step >> THEN searches[n].result.rows
    ELSE << >>

\* C20: test_rsp_invoice_date_specific_range passes only if row 0 after the
\* first sort shows a date <= today; among the rows 1 to 49 of that table some
\* row shows a date other than that of row 0, and the Invoice Start Date entered
\* is the date of the lowest such row; row 0 after the second search shows a
\* date >= that start date; and row 0 after the second sort shows a date <=
\* today. A run that finds no such row among the rows 1 to 49 does not pass.
C20_RangeChecksHold ==
    /\ Passed({ RangeTest }) =>
          LET first == RowsRead(1, "latest")
              second == RowsRead(2, "after_start")
              third == RowsRead(3, "final")
          IN  /\ Len(searches) = 3
              /\ ShowsDate(first, 0) /\ DateLE(DateShown(first, 0), Today)
              /\ RowsWithAnotherDate(first) # {}
              /\ page.form.invoice_start_date
                    = isoformat(DateShown(first, Lowest(RowsWithAnotherDate(first))))
              /\ ShowsDate(second, 0)
              /\ DateLE(DateShown(first, Lowest(RowsWithAnotherDate(first))), DateShown(second, 0))
              /\ third = page.table.rows
              /\ ShowsDate(third, 0) /\ DateLE(DateShown(third, 0), Today)
    /\ (test = RangeTest /\ pc = "done" /\ ShowsDate(RowsRead(1, "latest"), 0)
          /\ RowsWithAnotherDate(RowsRead(1, "latest")) = {})
         => outcome = "failed"

\* A passing run whose first table shows today, a cell without a date and
\* yesterday: row 1 is passed over and yesterday, from row 2, is entered.
C20_Witness ==
    /\ Passed({ RangeTest })
    /\ Len(RowsRead(1, "latest")) = 3
    /\ ~ShowsDate(RowsRead(1, "latest"), 1)
    /\ page.form.invoice_start_date = isoformat(Yesterday)
    /\ DateShown(RowsRead(2, "after_start"), 0) = Yesterday

\* The table of 51 rows whose first 50 show today was scanned and the test
\* failed, the other date standing in row 50.
LongTableFails == test = RangeTest /\ Len(page.table.rows) > ScanStop /\ outcome = "failed"

---------------------------------------------------------------------------
(* test_dashboard_ma_card_accordion                                        *)

\* A Market Actor card: the text of its title, how many elements the selector
\* of the panel finds in it (its first only), whether the panel is visible
\* when the dashboard loads, and whether a click on the title hides it
AccordionCard(title, panels, visible, hides) ==
    [title |-> title, panels |-> panels, visible |-> visible, hides |-> hides]

AccordionCards ==
    { AccordionCard(title, 1, visible, hides) :
        title \in { ActorName, Padded(SecondActorName), << " " >> },
        visible \in BOOLEAN, hides \in BOOLEAN }
    \cup { AccordionCard(ActorName, 0, FALSE, FALSE) }

CardLists == UNION { [1..k -> AccordionCards] : k \in 0..2 }

NoAccordionLocals ==
    [i |-> 0, market_actor_cards_collapsed |-> << >>, market_actor_cards_not_collapsed |-> << >>]

AccordionInit ==
    /\ environ \in { NoEnv, [TARGET_URL |-> << StagingHost >>] } /\ call = NoCall /\ ret = Pending
    /\ test = AccordionTest
    /\ pc = "goto" /\ outcome = "running" /\ error = ""
    /\ locals = NoAccordionLocals
    /\ \E path \in { DashboardPath, LoginPath }, cards \in CardLists :
          page = [url |-> << >>, path |-> path, cards |-> cards, clicked |-> << >>]
    /\ searches = << >>

\* cards.first.wait_for(state="visible")
WaitForCards ==
    /\ test = AccordionTest /\ pc = "card"
    /\ IF page.cards = << >> THEN Finish("failed", "TimeoutError") /\ UNCHANGED locals
       ELSE GoOn("first_pass") /\ locals' = [locals EXCEPT !.i = 1]
    /\ UNCHANGED <<page, searches, test>>
    /\ UNCHANGED helper_vars

\* The same for a loop that passes over no card
SkipsNoCard(name) == FALSE

\* if not name: continue
SkipsCard(name) == name = << >>

\* One iteration of the first pass: a card without a name is passed over; the
\* expectation of one panel is not guarded; the AssertionError of the
\* expectation that the panel is visible is caught and the name is noted
CheckCardExpanded ==
    /\ test = AccordionTest /\ pc = "first_pass"
    /\ locals.i <= Len(page.cards)
    /\ LET card == page.cards[locals.i]
           name == Strip(card.title)
       IN  IF SkipsCard(name) THEN GoOn("first_pass") /\ locals' = [locals EXCEPT !.i = @ + 1]
           ELSE IF card.panels # 1 THEN Finish("failed", "AssertionError") /\ UNCHANGED locals
           ELSE /\ GoOn("first_pass")
                /\ locals' = [locals EXCEPT
                       !.i = @ + 1,
                       !.market_actor_cards_collapsed =
                           IF card.visible THEN @ ELSE Append(@, name)]
    /\ UNCHANGED <<page, searches, test>>
    /\ UNCHANGED helper_vars

\* if market_actor_cards_collapsed: raise Exception
EndOfFirstPass ==
    /\ test = AccordionTest /\ pc = "first_pass"
    /\ locals.i > Len(page.cards)
    /\ IF locals.market_actor_cards_collapsed # << >>
       THEN Finish("failed", "Exception") /\ UNCHANGED locals
       ELSE GoOn("second_pass") /\ locals' = [locals EXCEPT !.i = 1]
    /\ UNCHANGED <<page, searches, test>>
    /\ UNCHANGED helper_vars

\* One iteration of the second pass: the title of a named card is clicked; the
\* AssertionError of the expectation that the panel is hidden is caught and
\* the name is noted
CollapseCard ==
    /\ test = AccordionTest /\ pc = "second_pass"
    /\ locals.i <= Len(page.cards)
    /\ LET card == page.cards[locals.i]
           name == Strip(card.title)
       IN  IF SkipsCard(name)
           THEN /\ GoOn("second_pass")
                /\ locals' = [locals EXCEPT !.i = @ + 1]
                /\ UNCHANGED page
           ELSE /\ GoOn("second_pass")
                /\ page' = [page EXCEPT !.clicked = Append(@, locals.i)]
                /\ locals' = [locals EXCEPT
                       !.i = @ + 1,
                       !.market_actor_cards_not_collapsed =
                           IF card.hides THEN @ ELSE Append(@, name)]
    /\ UNCHANGED <<searches, test>>
    /\ UNCHANGED helper_vars

\* if market_actor_cards_not_collapsed: raise Exception; the end of the test
EndOfSecondPass ==
    /\ test = AccordionTest /\ pc = "second_pass"
    /\ locals.i > Len(page.cards)
    /\ IF locals.market_actor_cards_not_collapsed # << >>
       THEN Finish("failed", "Exception")
       ELSE Finish("passed", "")
    /\ UNCHANGED <<locals, page, searches, test>>
    /\ UNCHANGED helper_vars

AccordionNext ==
    \/ GotoDashboard
    \/ WaitForCards
    \/ CheckCardExpanded
    \/ EndOfFirstPass
    \/ CollapseCard
    \/ EndOfSecondPass

SpecAccordion == AccordionInit /\ [][AccordionNext]_vars

---------------------------------------------------------------------------
(* The two tests that catch an AssertionError.                             *)

RecoveryInit == RangeInit \/ AccordionInit

RecoveryNext == RangeNext \/ AccordionNext

SpecRecovery == RecoveryInit /\ [][RecoveryNext]_vars

\* The AssertionErrors the run has caught so far: the rows whose date could
\* not be read, the cards whose panel was not as expected
CaughtAssertionErrors ==
    IF test = RangeTest THEN locals.caught
    ELSE locals.market_actor_cards_collapsed \o locals.market_actor_cards_not_collapsed

ScannedRows == RowsRead(1, "latest")

\* The row could be read as far as its cell, and the cell shows no date
ShowsNoDate(rows, k) ==
    /\ k + 1 <= Len(rows)
    /\ rows[k + 1].cells # << >>
    /\ parse_invoice_date(rows[k + 1].cells[1]).kind = "raise"

C14_AccordionWitness ==
    /\ test = AccordionTest /\ outcome = "failed" /\ error = "Exception"
    /\ Len(locals.market_actor_cards_collapsed) = 1
    /\ ~page.cards[1].visible /\ Len(page.cards) = 2


---------------------------------------------------------------------------
(* Claims about test_dashboard_ma_card_accordion.                          *)

\* The card at index k has a title that is not empty
Named(k) == Strip(page.cards[k].title) # << >>

\* The indexes, among the first n cards, of the named cards that are not ok,
\* in order
RECURSIVE NamedNot(_, _)
NamedNot(ok(_), n) ==
    IF n = 0 THEN << >>
    ELSE NamedNot(ok, n - 1) \o (IF Named(n) /\ ~ok(n) THEN << n >> ELSE << >>)

TitlesOf(indexes) == [j \in DOMAIN indexes |-> Strip(page.cards[indexes[j]].title)]

PanelVisible(k) == page.cards[k].panels = 1 /\ page.cards[k].visible
PanelHides(k) == page.cards[k].hides
HasPanel(k) == page.cards[k].panels = 1
Never(k) == FALSE

\* The test has failed in or after one of its two passes
FailedInAPass == test = AccordionTest /\ outcome = "failed" /\ locals.i >= 1

\* What C22 says of the titles clicked and of a passing run: no title is
\* clicked unless the panel of every named card was found visible in the first
\* pass, no title of an unnamed card is clicked, and the test passes only if
\* every named card had its panel visible at the load, was clicked once, and
\* had its panel hidden after the click.
ClicksAndPass ==
    test = AccordionTest =>
        /\ page.clicked # << >> => \A k \in DOMAIN page.cards : Named(k) => PanelVisible(k)
        /\ \A j \in DOMAIN page.clicked : Named(page.clicked[j])
        /\ outcome = "passed" =>
              /\ \A k \in DOMAIN page.cards : Named(k) => PanelVisible(k) /\ PanelHides(k)
              /\ page.clicked = NamedNot(Never, Len(page.cards))
        /\ \A j \in DOMAIN locals.market_actor_cards_collapsed :
              locals.market_actor_cards_collapsed[j] # << >>
        /\ \A j \in DOMAIN locals.market_actor_cards_not_collapsed :
              locals.market_actor_cards_not_collapsed[j] # << >>

\* C22 as stated: besides, whenever the test fails in a pass, every offending
\* card of that pass has been collected: in the first pass every named card
\* whose panel is not visible, in the second every named card whose panel is
\* not hidden after the click.
C22_AllOffendersCollected ==
    /\ ClicksAndPass
    /\ FailedInAPass =>
          IF page.clicked = << >> /\ locals.market_actor_cards_not_collapsed = << >>
          THEN locals.market_actor_cards_collapsed =
                   TitlesOf(NamedNot(PanelVisible, Len(page.cards)))
          ELSE locals.market_actor_cards_not_collapsed =
                   TitlesOf(NamedNot(PanelHides, Len(page.cards)))

\* C22 amended: the same, except that the first pass ends at once, with the
\* AssertionError of the expectation of one panel, at the first named card
\* that has no content panel: the offending cards before it have been
\* collected, those after it have not been looked at. In every other failure
\* of a pass all the offending cards of the pass have been collected, and the
\* test fails with an Exception.
C22_CollectedUnlessNoPanel ==
    /\ ClicksAndPass
    /\ FailedInAPass =>
          IF error = "AssertionError"
          THEN /\ Named(locals.i) /\ ~HasPanel(locals.i)
               /\ \A k \in 1..(locals.i - 1) : Named(k) => HasPanel(k)
               /\ page.clicked = << >>
               /\ locals.market_actor_cards_collapsed =
                      TitlesOf(NamedNot(PanelVisible, locals.i - 1))
          ELSE /\ error = "Exception"
               /\ IF page.clicked = << >>
                  THEN /\ locals.market_actor_cards_collapsed # << >>
                       /\ locals.market_actor_cards_collapsed =
                              TitlesOf(NamedNot(PanelVisible, Len(page.cards)))
                  ELSE /\ locals.market_actor_cards_collapsed = << >>
                       /\ locals.market_actor_cards_not_collapsed # << >>
                       /\ page.clicked = NamedNot(Never, Len(page.cards))
                       /\ locals.market_actor_cards_not_collapsed =
                              TitlesOf(NamedNot(PanelHides, Len(page.cards)))

\* The test has passed over an unnamed card whose panel was hidden and a named
\* card, whose title it clicked.
C22_Witness ==
    /\ test = AccordionTest /\ outcome = "passed"
    /\ Len(page.cards) = 2
    /\ ~Named(1) /\ ~page.cards[1].visible
    /\ Named(2)
    /\ page.clicked = << 2 >>

\* The test has failed after the second pass with both cards collected, and
\* it has failed at a first card without a panel, before a card whose panel
\* was hidden.
BothNotCollapsed ==
    /\ FailedInAPass
    /\ Len(locals.market_actor_cards_not_collapsed) = 2
    /\ page.clicked = << 1, 2 >>

StoppedAtCardWithoutPanel ==
    /\ FailedInAPass /\ error = "AssertionError"
    /\ locals.i = 1 /\ Len(page.cards) = 2
    /\ Named(2) /\ ~page.cards[2].visible
    /\ locals.market_actor_cards_collapsed = << >>

---------------------------------------------------------------------------
(* The search term and the comparison of the result rows                   *)

---------------------------------------------------------------------------
(* test_rsp_status_field_expired                                           *)

ExpiredTest == "test_rsp_status_field_expired"

SelectIds == { "id_market_actor", "id_status", "id_invoice_date" }

\* The label the test selects in each dropdown
LabelToSelect(id) == IF id = "id_status" THEN << "Expired" >> ELSE << "All" >>

\* The Recent Sales form: how many elements each select's id finds, whether
\* the Status select offers 'Expired', the text of the checked option of each
\* select, and how many primary Search buttons there are
ExpiredForms ==
    { [selects |-> s, offers_expired |-> o,
       checked |-> [id \in SelectIds |-> << "All" >>], buttons |-> b] :
        s \in [SelectIds -> 1..2], o \in BOOLEAN, b \in 1..2 }

\* A Status cell: its inner text, the texts of its span.help-text elements
\* and the number of its <i> elements
StatusCells ==
    [text : { << >>, << " " >>, << "Ready" >>, << " ", "Expired", " " >> },
     help : { << >>, << << "Expired" >> >>, << << "Ready" >> >> },
     icons : 0..1]

\* The results a search or a sort brings: the td.status cells (the first
\* only) and whether a <p> shows 'Total Record Count 0'; the table's header:
\* the links of role link named 'Status' and the links whose href holds
\* 'sort=status'
StatusColumns == { << >> } \cup { << c >> : c \in StatusCells }

ExpiredTables ==
    [cells : StatusColumns, total_0 : BOOLEAN, by_role : 0..2, by_href : 0..1]

NoExpiredTable == [cells |-> << >>, total_0 |-> FALSE, by_role |-> 0, by_href |-> 0]

\* What a step did and the Status cells on the page when it had acted
ExpiredStep(step, cells) == [value |-> << step >>, result |-> cells]

ExpiredInit ==
    /\ environ \in { NoEnv, [TARGET_URL |-> << StagingHost >>] } /\ call = NoCall /\ ret = Pending
    /\ test = ExpiredTest
    /\ pc = "goto" /\ outcome = "running" /\ error = ""
    /\ locals = << >>
    /\ \E path \in { SalesdataPath, LoginPath }, form \in ExpiredForms :
          page = [url |-> << >>, path |-> path, form |-> form, table |-> NoExpiredTable]
    /\ searches = << >>

\* page.goto(url("/salesdata/")); page.wait_for_url("**/salesdata/**")
GotoSalesdataExpired ==
    /\ test = ExpiredTest /\ pc = "goto"
    /\ LET u == url(environ, << "/","s","a","l","e","s","d","a","t","a","/" >>) IN
       IF u.kind = "raise" THEN Finish("failed", u.exc)
       ELSE IF page.path # SalesdataPath THEN Finish("failed", "TimeoutError")
       ELSE GoOn("select_filters")
    /\ UNCHANGED <<locals, page, searches, test>>
    /\ UNCHANGED helper_vars

\* dropdown.select_option(label=...): the option of that label becomes the
\* checked one; a label the select does not offer is waited for in vain
select_option(form, id, label) ==
    IF label = << "Expired" >> /\ ~form.offers_expired THEN Raise("TimeoutError")
    ELSE Return([form EXCEPT !.checked[id] = label])

\* One dropdown: a single select, the selection, the checked option's text
SetDropdown(form, id) ==
    IF form.selects[id] # 1 THEN Raise("AssertionError")
    ELSE Given(select_option(form, id, LabelToSelect(id)), LAMBDA r :
            IF r.kind = "raise" THEN r
            ELSE IF Strip(r.val.checked[id]) # LabelToSelect(id) THEN Raise("AssertionError")
            ELSE r)

\* Market Actor 'All', Status 'Expired', Invoice Date 'All', in this order
SetFilters(form) ==
    Given(SetDropdown(form, "id_market_actor"), LAMBDA a :
        IF a.kind = "raise" THEN a
        ELSE Given(SetDropdown(a.val, "id_status"), LAMBDA s :
                IF s.kind = "raise" THEN s
                ELSE SetDropdown(s.val, "id_invoice_date")))

SelectExpiredFilters ==
    /\ test = ExpiredTest /\ pc = "select_filters"
    /\ \E r \in { SetFilters(page.form) } :
          IF r.kind = "raise" THEN Finish("failed", r.exc) /\ UNCHANGED page
          ELSE GoOn("search") /\ page' = [page EXCEPT !.form = r.val]
    /\ UNCHANGED <<locals, searches, test>>
    /\ UNCHANGED helper_vars

\* The same for a clause that catches every exception
ExceptBaseExceptionCatches(exc) == TRUE

\* except Exception: pytest's Skipped derives from BaseException
ExceptExceptionCatches(exc) == exc # "Skipped"

\* first_status_cell_locator.wait_for(state="visible") in its try block
HasRows(table) ==
    Given(IF table.cells # << >> THEN Return(TRUE) ELSE Raise("TimeoutError"), LAMBDA w :
        IF w.kind = "return" THEN Return(TRUE)
        ELSE IF ExceptExceptionCatches(w.exc) THEN Return(FALSE)
        ELSE w)

\* The try block of the page without rows: the wait for 'Total Record Count
\* 0' and pytest.skip(); what its except clause catches becomes an Exception
SkipOrRaise(table) ==
    Given(IF table.total_0 THEN Raise("Skipped") ELSE Raise("TimeoutError"), LAMBDA body :
        IF ExceptExceptionCatches(body.exc) THEN Raise("Exception") ELSE body)

\* The handling of "no records found"
HandleNoRecords(table) ==
    Given(HasRows(table), LAMBDA has_rows :
        IF has_rows.kind = "raise" THEN has_rows
        ELSE IF ~has_rows.val THEN SkipOrRaise(table)
        ELSE has_rows)

\* The Search button is clicked and the results are waited for
SearchExpired ==
    /\ test = ExpiredTest /\ pc = "search"
    /\ IF page.form.buttons # 1
       THEN Finish("failed", "AssertionError") /\ UNCHANGED <<locals, page, searches>>
       ELSE \E table \in ExpiredTables :
              /\ page' = [page EXCEPT !.table = table]
              /\ searches' = Append(searches, ExpiredStep("search", table.cells))
              /\ \E r \in { HandleNoRecords(table) } :
                    IF r.kind = "raise" THEN FinishOn(r) /\ UNCHANGED locals
                    ELSE GoOn("header") /\ locals' = [has_rows |-> r.val]
    /\ UNCHANGED test
    /\ UNCHANGED helper_vars

\* first_status_cell()
first_status_cell(table) ==
    IF table.cells = << >> THEN Raise("TimeoutError") ELSE Return(table.cells[1])

\* The links the test takes for the header of the Status column
StatusHeaderLinks(table) == IF table.by_role = 0 THEN table.by_href ELSE table.by_role

\* The first cell is located and the header link is found and focused: the
\* focus of a locator that matches several links is a strict mode violation
FindStatusHeader ==
    /\ test = ExpiredTest /\ pc = "header"
    /\ \E cell \in { first_status_cell(page.table) } :
          IF cell.kind = "raise" THEN Finish("failed", cell.exc)
          ELSE IF StatusHeaderLinks(page.table) = 0 THEN Finish("failed", "AssertionError")
          ELSE IF StatusHeaderLinks(page.table) > 1 THEN Finish("failed", "Error")
          ELSE GoOn("baseline")
    /\ UNCHANGED <<locals, page, searches, test>>
    /\ UNCHANGED helper_vars

\* verify_status_cell(cell, stage=...)
verify_status_cell(cell) ==
    LET cell_text == Strip(cell.text)
        help_text_text == IF Len(cell.help) # 0 THEN Strip(cell.help[1]) ELSE << >>
    IN  IF cell_text = << >> THEN Raise("AssertionError")
        ELSE IF ~(Contains(cell_text, << "Expired" >>) \/ Contains(help_text_text, << "Expired" >>))
        THEN Raise("AssertionError")
        ELSE IF ~(cell.icons >= 1) THEN Raise("AssertionError")
        ELSE Return(<< >>)

\* The first cell of the table is located and verified
VerifyFirstCell(table) ==
    Given(first_status_cell(table), LAMBDA cell :
        IF cell.kind = "raise" THEN cell ELSE verify_status_cell(cell.val))

\* verify_status_cell(first_cell, stage="baseline")
VerifyBaseline ==
    /\ test = ExpiredTest /\ pc = "baseline"
    /\ searches' = Append(searches, ExpiredStep("verify", page.table.cells))
    /\ \E r \in { VerifyFirstCell(page.table) } :
          IF r.kind = "raise" THEN Finish("failed", r.exc) ELSE GoOn("sort_1")
    /\ UNCHANGED <<locals, page, test>>
    /\ UNCHANGED helper_vars

\* status_header_link.first.click() and the verification of the first cell,
\* once for each of the two orders
SortByStatus ==
    /\ test = ExpiredTest /\ pc \in { "sort_1", "sort_2" }
    /\ \E cells \in StatusColumns :
          /\ page' = [page EXCEPT !.table.cells = cells]
          /\ searches' = searches \o << ExpiredStep("click", cells), ExpiredStep("verify", cells) >>
          /\ \E r \in { VerifyFirstCell([page.table EXCEPT !.cells = cells]) } :
                IF r.kind = "raise" THEN Finish("failed", r.exc)
                ELSE IF pc = "sort_1" THEN GoOn("sort_2")
                ELSE Finish("passed", "")
    /\ UNCHANGED <<locals, test>>
    /\ UNCHANGED helper_vars

ExpiredNext ==
    \/ GotoSalesdataExpired
    \/ SelectExpiredFilters
    \/ SearchExpired
    \/ FindStatusHeader
    \/ VerifyBaseline
    \/ SortByStatus

SpecExpired == ExpiredInit /\ [][ExpiredNext]_vars

\* The Search button has been clicked and no Status cell became visible
NoStatusCellAfterSearch ==
    /\ test = ExpiredTest
    /\ searches # << >>
    /\ searches[1] = ExpiredStep("search", << >>)

\* The steps that verify a Status cell or click the header of the column
ChecksRun == { k \in DOMAIN searches : searches[k].value \in { << "verify" >>, << "click" >> } }

\* C24: in test_rsp_status_field_expired, when no Status cell is visible after
\* Search, the test ends as skipped if 'Total Record Count 0' is visible and
\* fails with an Exception if it is not; in neither case a Status cell is
\* verified or the column sorted.
C24_NoRowsSkippedOrException ==
    NoStatusCellAfterSearch =>
        /\ pc = "done"
        /\ IF page.table.total_0
           THEN outcome = "skipped" /\ error = ""
           ELSE outcome = "failed" /\ error = "Exception"
        /\ ChecksRun = { }
        /\ Len(searches) = 1

\* The search brought no row and 'Total Record Count 0': the test is skipped.
C24_Witness ==
    /\ NoStatusCellAfterSearch
    /\ page.table.total_0
    /\ page.form.checked["id_status"] = << "Expired" >>
    /\ outcome = "skipped"

\* The search brought neither a row nor 'Total Record Count 0'.
NoRowsNoTotalFails ==
    /\ NoStatusCellAfterSearch
    /\ ~page.table.total_0
    /\ outcome = "failed" /\ error = "Exception"

\* With rows the test went through both sorts.
ExpiredPassedBothSorts ==
    /\ test = ExpiredTest /\ outcome = "passed"
    /\ Cardinality(ChecksRun) = 5

---------------------------------------------------------------------------
(* conftest.py: the report hook and the context and page fixtures          *)

\* str.replace(old, new): the occurrences of old from the left, none
\* overlapping another
RECURSIVE Replace(_, _, _)
Replace(s, old, new) ==
    IF Len(s) < Len(old) THEN s
    ELSE IF SubSeq(s, 1, Len(old)) = old
    THEN new \o Replace(SubSeq(s, Len(old) + 1, Len(s)), old, new)
    ELSE << s[1] >> \o Replace(Tail(s), old, new)

\* nodeid.replace("/", "_").replace("\\", "_").replace("::", "__")
safe_nodeid(nodeid) ==
    Replace(Replace(Replace(nodeid, << "/" >>, << "_" >>), << "\\" >>, << "_" >>),
            << ":", ":" >>, << "_", "_" >>)

\* artifacts_dir / f"trace_{safe_nodeid}.zip", the parts of the path
trace_path(nodeid) == << << "artifacts" >>, << "trace_" >> \o safe_nodeid(nodeid) \o << ".zip" >> >>

\* The node ids of the tests
NodeIds == StringsUpTo({ "t", "/", "\\", ":" }, MaxNodeIdLen) \ { << >> }

NoReport == [when |-> "", outcome |-> ""]

TestReport(when, o) == [when |-> when, outcome |-> o]

\* The test item without the attributes the report hook sets
NoReports == [rep_setup |-> NoReport, rep_call |-> NoReport, rep_teardown |-> NoReport]

\* f"rep_{rep.when}"
ReportAttribute(when) ==
    CASE when = "setup" -> "rep_setup"
      [] when = "call" -> "rep_call"
      [] when = "teardown" -> "rep_teardown"

\* No browser context yet
NoContext == [tracing |-> "none", closed |-> FALSE]

ContextInit ==
    /\ environ = NoEnv /\ call = NoCall /\ ret = Pending
    /\ test \in NodeIds
    /\ pc = "setup_context" /\ outcome = "running" /\ error = ""
    /\ locals = NoReports
    /\ page = [context |-> NoContext, files |-> { }, fixtures |-> << >>, report |-> NoReport]
    /\ searches = << >>

\* What a fixture or a phase did, in the order it happened
PhaseEvent(what, result) == [value |-> << what >>, result |-> result]

\* The setup of the context fixture: browser.new_context() and
\* context.tracing.start(); either may raise, and the setup phase fails
SetupContext ==
    /\ pc = "setup_context"
    /\ \E raised \in { "", "new_context", "tracing.start" } :
          IF raised = "new_context"
          THEN /\ page' = [page EXCEPT !.report = TestReport("setup", "failed")]
               /\ searches' = searches
               /\ pc' = "report"
          ELSE IF raised = "tracing.start"
          THEN /\ page' = [page EXCEPT !.context.tracing = "off",
                                       !.report = TestReport("setup", "failed")]
               /\ searches' = searches
               /\ pc' = "report"
          ELSE /\ page' = [page EXCEPT !.context.tracing = "started",
                                       !.fixtures = << "context" >> \o @]
               /\ searches' = Append(searches, PhaseEvent("tracing.start", << >>))
               /\ pc' = "setup_page"
    /\ UNCHANGED <<locals, test, outcome, error>>
    /\ UNCHANGED helper_vars

\* The setup of the page fixture: context.new_page() may raise
SetupPage ==
    /\ pc = "setup_page"
    /\ \E raised \in BOOLEAN :
          IF raised THEN page' = [page EXCEPT !.report = TestReport("setup", "failed")]
          ELSE page' = [page EXCEPT !.fixtures = << "page" >> \o @,
                                    !.report = TestReport("setup", "passed")]
    /\ pc' = "report"
    /\ UNCHANGED <<locals, searches, test, outcome, error>>
    /\ UNCHANGED helper_vars

\* The call phase: the test function passes, fails or skips
CallTest ==
    /\ pc = "call"
    /\ \E o \in { "passed", "failed", "skipped" } :
          /\ page' = [page EXCEPT !.report = TestReport("call", o)]
          /\ searches' = Append(searches, PhaseEvent("call", o))
    /\ pc' = "report"
    /\ UNCHANGED <<locals, test, outcome, error>>
    /\ UNCHANGED helper_vars

\* What pytest reports for the test when its three phases have run
Reported(node) ==
    IF \E a \in DOMAIN node : node[a].outcome = "failed" THEN "failed"
    ELSE IF node.rep_call.outcome = "skipped" THEN "skipped"
    ELSE "passed"

\* pytest_runtest_makereport: the report of the phase is set on the item; the
\* call phase follows a setup that passed, the teardown every setup
pytest_runtest_makereport ==
    /\ pc = "report"
    /\ \E node \in { [locals EXCEPT ![ReportAttribute(page.report.when)] = page.report] } :
          /\ locals' = node
          /\ IF page.report.when = "teardown" THEN Finish(Reported(node), "")
             ELSE IF page.report = TestReport("setup", "passed") THEN GoOn("call")
             ELSE GoOn("teardown")
    /\ UNCHANGED <<page, searches, test>>
    /\ UNCHANGED helper_vars

\* The teardown of the page fixture, the last that was set up: page.close()
TeardownPage ==
    /\ pc = "teardown"
    /\ page.fixtures # << >> /\ Head(page.fixtures) = "page"
    /\ page' = [page EXCEPT !.fixtures = Tail(@)]
    /\ searches' = Append(searches, PhaseEvent("page.close", << >>))
    /\ UNCHANGED <<pc, locals, test, outcome, error>>
    /\ UNCHANGED helper_vars

\* The same for a trace that is saved when any phase failed
failed_in_any_phase(node) == \E a \in DOMAIN node : node[a].outcome = "failed"

\* getattr(request.node, "rep_call", None) and request.node.rep_call.failed
failed(node) == node.rep_call # NoReport /\ node.rep_call.outcome = "failed"

\* The teardown of the context fixture: the trace is saved when the call
\* phase failed and dropped otherwise, then the context is closed
TeardownContext ==
    /\ pc = "teardown"
    /\ page.fixtures # << >> /\ Head(page.fixtures) = "context"
    /\ IF failed(locals)
       THEN /\ page' = [page EXCEPT !.fixtures = Tail(@),
                                    !.context = [tracing |-> "stopped", closed |-> TRUE],
                                    !.files = @ \cup { trace_path(test) }]
            /\ searches' = searches \o << PhaseEvent("tracing.stop", trace_path(test)),
                                          PhaseEvent("context.close", << >>) >>
       ELSE /\ page' = [page EXCEPT !.fixtures = Tail(@),
                                    !.context = [tracing |-> "stopped", closed |-> TRUE]]
            /\ searches' = searches \o << PhaseEvent("tracing.stop", << >>),
                                          PhaseEvent("context.close", << >>) >>
    /\ UNCHANGED <<pc, locals, test, outcome, error>>
    /\ UNCHANGED helper_vars

\* Every fixture that was set up has been torn down
EndOfTeardown ==
    /\ pc = "teardown"
    /\ page.fixtures = << >>
    /\ page' = [page EXCEPT !.report = TestReport("teardown", "passed")]
    /\ pc' = "report"
    /\ UNCHANGED <<locals, searches, test, outcome, error>>
    /\ UNCHANGED helper_vars

ContextNext ==
    \/ SetupContext
    \/ SetupPage
    \/ CallTest
    \/ pytest_runtest_makereport
    \/ TeardownPage
    \/ TeardownContext
    \/ EndOfTeardown

SpecContext == ContextInit /\ [][ContextNext]_vars

\* The places of the history where what happened
EventsOf(what) == { k \in DOMAIN searches : searches[k].value = << what >> }

\* Tracing was started at setup and the teardown of the test is over
TornDownAfterTracing == pc = "done" /\ EventsOf("tracing.start") # { }

\* The call phase ran and failed
CallPhaseFailed == PhaseEvent("call", "failed") \in { searches[k] : k \in DOMAIN searches }

\* C25: at teardown of a test's browser context, tracing that was started at
\* setup is stopped exactly once and the context is closed after the stop; the
\* trace file artifacts/trace_<sanitised node id>.zip, in whose name no path
\* separator and no '::' is left, is written if and only if the call phase of
\* the test failed.
C25_TraceSavedIffCallFailed ==
    TornDownAfterTracing =>
        /\ Cardinality(EventsOf("tracing.stop")) = 1
        /\ Cardinality(EventsOf("context.close")) = 1
        /\ \A s \in EventsOf("tracing.stop"), c \in EventsOf("context.close"),
              b \in EventsOf("tracing.start") : b < s /\ s < c
        /\ page.context = [tracing |-> "stopped", closed |-> TRUE]
        /\ page.files = IF CallPhaseFailed THEN { trace_path(test) } ELSE { }
        /\ \A f \in page.files :
              /\ Len(f) = 2 /\ f[1] = << "artifacts" >>
              /\ \A i \in DOMAIN f[2] : f[2][i] \notin { "/", "\\" }
              /\ ~Contains(f[2], << ":", ":" >>)

\* A test whose node id holds both separators and '::' failed in its call
\* phase, and its trace was saved.
C25_Witness ==
    /\ TornDownAfterTracing
    /\ CallPhaseFailed
    /\ outcome = "failed"
    /\ test = << "/", ":", ":" >>
    /\ page.files = { << << "artifacts" >>, << "trace_", "_", "_", "_", ".zip" >> >> }

\* A test that failed in the setup of the page fixture left no trace file.
FailedInSetupWithoutTrace ==
    /\ TornDownAfterTracing
    /\ locals.rep_setup.outcome = "failed" /\ locals.rep_call = NoReport
    /\ outcome = "failed"
    /\ page.files = { }

\* A skipped test left no trace file.
SkippedWithoutTrace ==
    /\ TornDownAfterTracing /\ outcome = "skipped" /\ page.files = { }

====
